---- MODULE Spec2Model ----
(***************************************************************************)
(* TabGenius: the tab snapshot/restore (undo) mechanism of                 *)
(* TabStateManager, the sort engine TabSorter and the grouping step of     *)
(* TabOrganizer, run against a model of the browser's tab strip            *)
(* (chrome.tabs.move / group / ungroup, chrome.tabGroups.update).          *)
(*                                                                         *)
(* A tab's `index` is its zero-based position in the window; the tab strip *)
(* is the sequence `tabs`, so the tab at position p has index p - 1.       *)
(***************************************************************************)
EXTENDS Integers, Sequences, FiniteSets, TLC

(***************************************************************************)
(* Bounds.                                                                 *)
(***************************************************************************)
\* Number of tabs open in the window when the popup is opened.
MaxTabs == 4

(***************************************************************************)
(* Values of the browser API.                                              *)
(***************************************************************************)
\* chrome.tabGroups.TAB_GROUP_ID_NONE, which the code also spells -1.
TAB_GROUP_ID_NONE == -1

\* The colors chrome.tabGroups accepts, in the order the organizer lists them.
colors == <<"grey", "blue", "red", "yellow", "green", "pink", "purple", "cyan", "orange">>

\* this.previousState = null: the snapshot slot is a sequence of length 0
\* (null) or 1 (the snapshot).
Null == <<>>

(***************************************************************************)
(* Strings.  Titles and urls are drawn from fixed pools; the string        *)
(* functions of the code are tables over these pools.                      *)
(***************************************************************************)
TitlePool == <<"b", "A", "a", "B", "c", "C">>
UrlPool == <<"https://b.org/", "https://a.org/Y", "https://a.org/y",
             "https://c.org/", "https://B.org/", "https://d.org/">>
InternalUrl == "chrome://settings/"

TitleOf(id) == TitlePool[((id - 1) % Len(TitlePool)) + 1]
UrlOf(id) == UrlPool[((id - 1) % Len(UrlPool)) + 1]

\* String.prototype.toLowerCase
ToLowerCase(s) ==
  CASE s = "A" -> "a"
    [] s = "B" -> "b"
    [] s = "C" -> "c"
    [] s = "https://a.org/Y" -> "https://a.org/y"
    [] s = "https://B.org/" -> "https://b.org/"
    [] OTHER -> s

\* The lower-case strings of the pools in ascending collation order.
CollationOrder == <<"a", "b", "c", "chrome://settings/", "https://a.org/y",
                    "https://b.org/", "https://c.org/", "https://d.org/">>

CollationRank(s) == CHOOSE i \in 1..Len(CollationOrder) : CollationOrder[i] = s

\* String.prototype.localeCompare: negative, zero or positive.
LocaleCompare(x, y) ==
  IF CollationRank(x) < CollationRank(y) THEN -1
  ELSE IF CollationRank(x) > CollationRank(y) THEN 1
  ELSE 0

\* url.startsWith('chrome://') || url.startsWith('chrome-extension://')
IsInternalUrl(u) == u = InternalUrl

(***************************************************************************)
(* Sequence helpers.  Array.prototype.filter is SelectSeq.                 *)
(***************************************************************************)
Min(a, b) == IF a < b THEN a ELSE b
Max(a, b) == IF a > b THEN a ELSE b

RemoveAt(s, p) == SubSeq(s, 1, p - 1) \o SubSeq(s, p + 1, Len(s))
InsertAt(s, p, x) == SubSeq(s, 1, p - 1) \o <<x>> \o SubSeq(s, p, Len(s))

IdsOf(s) == {s[i].id : i \in 1..Len(s)}
IdSeq(s) == [i \in 1..Len(s) |-> s[i].id]
PosOf(ts, id) == CHOOSE p \in 1..Len(ts) : ts[p].id = id

(***************************************************************************)
(* The browser: the tab strip and its groups.                              *)
(***************************************************************************)
IsGrouped(t) == t.groupId # TAB_GROUP_ID_NONE /\ t.groupId # -1

GroupIdsOf(ts) == {ts[i].groupId : i \in {j \in 1..Len(ts) : IsGrouped(ts[j])}}

PinnedCount(ts) == Cardinality({i \in 1..Len(ts) : ts[i].pinned})

\* A group exists only while a tab references it.
LiveGroups(ts, gs) == [g \in GroupIdsOf(ts) |-> gs[g]]

\* chrome.tabs.query({ currentWindow: true }): the tabs in index order.
QueryTabs(ts) ==
  [i \in 1..Len(ts) |->
     [id |-> ts[i].id, index |-> i - 1, url |-> ts[i].url, title |-> ts[i].title,
      pinned |-> ts[i].pinned, groupId |-> ts[i].groupId]]

\* chrome.tabGroups.query: the groups of the window, by ascending id.
RECURSIVE SetToSeq(_)
SetToSeq(S) ==
  IF S = {} THEN <<>>
  ELSE LET m == CHOOSE x \in S : \A y \in S : x <= y
       IN <<m>> \o SetToSeq(S \ {m})

QueryGroups(ts, gs) ==
  LET ids == SetToSeq(GroupIdsOf(ts))
  IN [i \in 1..Len(ids) |-> [id |-> ids[i], title |-> gs[ids[i]].title,
                              color |-> gs[ids[i]].color]]

\* chrome.tabs.move(tabId, { index }).  The index is clamped to the last
\* position, an unpinned tab stays right of the pinned tabs and a pinned tab
\* among them.  The moved tab joins the group whose middle it lands in, keeps
\* its group while it stays next to it, and leaves it otherwise.
BrowserMove(ts, id, index) ==
  LET n == Len(ts)
      from == PosOf(ts, id)
      t == ts[from]
      pc == PinnedCount(ts)
      idx0 == IF index >= n \/ index < 0 THEN n - 1 ELSE index
      idx == IF t.pinned THEN Min(idx0, pc - 1) ELSE Max(idx0, pc)
      to == idx + 1
      rest == RemoveAt(ts, from)
      left == IF to > 1 THEN rest[to - 1].groupId ELSE TAB_GROUP_ID_NONE
      right == IF to <= Len(rest) THEN rest[to].groupId ELSE TAB_GROUP_ID_NONE
      alone == \A i \in 1..Len(rest) : rest[i].groupId # t.groupId
      g == IF left # TAB_GROUP_ID_NONE /\ left = right THEN left
           ELSE IF IsGrouped(t) /\ (left = t.groupId \/ right = t.groupId \/ alone)
                THEN t.groupId
           ELSE TAB_GROUP_ID_NONE
  IN IF to = from THEN ts ELSE InsertAt(rest, to, [t EXCEPT !.groupId = g])

\* chrome.tabs.ungroup(tabIds).  The code only ever ungroups every grouped
\* tab of the window at once, which leaves the order of the tabs as it is.
BrowserUngroup(ts, ids) ==
  [i \in 1..Len(ts) |->
     IF ts[i].id \in ids THEN [ts[i] EXCEPT !.groupId = TAB_GROUP_ID_NONE] ELSE ts[i]]

\* The id the browser gives the next group: one no live group and no
\* snapshot entry carries.
FreshGroupId(ts, used) ==
  LET taken == GroupIdsOf(ts) \cup used
  IN CHOOSE g \in 1..(Cardinality(taken) + 1) :
       g \notin taken /\ \A h \in 1..(g - 1) : h \in taken

\* chrome.tabs.group({ tabIds }): the tabs are stacked, in tab-strip order,
\* right after the first of them (after the end of that tab's old group when
\* the next tab belongs to it) and form a new group.
RECURSIVE GroupDestination(_, _, _)
GroupDestination(ts, first, i) ==
  IF i + 1 > Len(ts) THEN i + 1
  ELSE IF ts[i + 1].pinned THEN GroupDestination(ts, first, i + 1)
  ELSE IF ~IsGrouped(ts[i + 1]) \/ ts[i + 1].groupId # ts[first].groupId THEN i + 1
  ELSE GroupDestination(ts, first, i + 1)

BrowserGroup(ts, ids, gid) ==
  LET first == CHOOSE p \in 1..Len(ts) :
                 ts[p].id \in ids /\ \A q \in 1..(p - 1) : ts[q].id \notin ids
      d == GroupDestination(ts, first, first)
      In(t) == t.id \in ids
      Out(t) == t.id \notin ids
      grouped == SelectSeq(ts, In)
  IN SelectSeq(SubSeq(ts, 1, d - 1), Out)
       \o [i \in 1..Len(grouped) |-> [grouped[i] EXCEPT !.groupId = gid]]
       \o SelectSeq(SubSeq(ts, d, Len(ts)), Out)

\* The color the browser gives a new group: the least used one, the first of
\* the palette among equals.
NextColor(gs) ==
  LET uses(c) == Cardinality({g \in DOMAIN gs : gs[g].color = c})
      k == CHOOSE i \in 1..Len(colors) :
             /\ \A j \in 1..Len(colors) : uses(colors[i]) <= uses(colors[j])
             /\ \A j \in 1..(i - 1) : uses(colors[j]) > uses(colors[i])
  IN colors[k]

\* A function extended or overwritten at one point.
Put(f, k, v) == [x \in DOMAIN f \cup {k} |-> IF x = k THEN v ELSE f[x]]

(***************************************************************************)
(* State.                                                                  *)
(***************************************************************************)
VARIABLES
  tabs,           \* the window's tab strip, in index order
  groups,         \* live group id -> [title, color]
  previousState,  \* TabStateManager.previousState: Null or <<snapshot>>
  lastOp,         \* the operation that ran last
  lastResult,     \* how it ended: "ok", "error" or "noop"
  requests,       \* the browser requests it issued, in order
  events,         \* rejected requests and closed tabs of this session so far
  saved,          \* what the operation's saveCurrentState call returned
  captured,       \* history: the window at the latest successful capture
  captures,       \* history: successful captures so far (0, 1, 2 = several)
  enabled,        \* popup buttons: button id -> whether it can be clicked
  running,        \* click handlers that have started and not yet returned
  call,           \* the function applied last, with its arguments
  result          \* what that application returned

\* The variables of the popup's buttons and of its handlers in flight.
uiVars == <<enabled, running>>

\* The variables that record one application of a function of the
\* background script or of the organizer's analysis.
fnVars == <<call, result>>

vars == <<tabs, groups, previousState, lastOp, lastResult, requests, events,
          saved, captured, captures, uiVars, fnVars>>

\* A request to the browser, as logged: its kind, the tab ids it names, its
\* numeric argument (index or group id) and whether the browser accepted it.
Request(kind, ids, arg, ok) == [kind |-> kind, ids |-> ids, arg |-> arg, ok |-> ok]

(***************************************************************************)
(* TabStateManager.                                                        *)
(***************************************************************************)
\* The snapshot saveCurrentState builds from the tab and group queries.
TabState(ts, gs) ==
  LET q == QueryTabs(ts)
      gq == QueryGroups(ts, gs)
  IN [tabs |-> [i \in 1..Len(q) |->
                  [id |-> q[i].id, index |-> q[i].index, url |-> q[i].url,
                   title |-> q[i].title, groupId |-> q[i].groupId]],
      groups |-> [g \in {gq[i].id : i \in 1..Len(gq)} |->
                    LET e == gq[CHOOSE i \in 1..Len(gq) : gq[i].id = g]
                    IN [title |-> e.title, color |-> e.color]]]

\* A saveCurrentState that would keep a snapshot already held instead of
\* replacing it.
saveCurrentState_keepsFirst(ts, gs, prev, queriesOk) ==
  IF queriesOk /\ prev = Null THEN <<TabState(ts, gs)>> ELSE prev

\* saveCurrentState: the slot after the call.  A failed query is caught, the
\* slot keeps what it held and the call returns false.
saveCurrentState(ts, gs, prev, queriesOk) ==
  IF queriesOk THEN <<TabState(ts, gs)>> ELSE prev

canUndo(prev) == prev # Null

\* The moves of a list of [id, index] pairs, issued one after the other.  A
\* move in failing is rejected by the browser; when stopOnFail the first
\* rejection ends the list (the caller's await throws), otherwise the
\* rejection is skipped.  The result is the tab strip, the log and whether a
\* move was rejected.
RECURSIVE ApplyMoves(_, _, _, _, _)
ApplyMoves(ts, moves, failing, stopOnFail, log) ==
  IF moves = <<>> THEN [tabs |-> ts, log |-> log, failed |-> FALSE]
  ELSE LET m == Head(moves)
           ok == m.id \notin failing /\ m.id \in IdsOf(ts)
           log1 == Append(log, Request("move", {m.id}, m.index, ok))
       IN IF ok THEN ApplyMoves(BrowserMove(ts, m.id, m.index), Tail(moves),
                                failing, stopOnFail, log1)
          ELSE IF stopOnFail THEN [tabs |-> ts, log |-> log1, failed |-> TRUE]
          ELSE LET r == ApplyMoves(ts, Tail(moves), failing, stopOnFail, log1)
               IN [r EXCEPT !.failed = TRUE]

\* TabStateManager.ungroupAllTabs: one ungroup request naming every grouped
\* tab, none when no tab is grouped.
ungroupAllTabs(ts, log) ==
  LET grouped == {ts[i].id : i \in {j \in 1..Len(ts) : IsGrouped(ts[j])}}
  IN IF grouped = {} THEN [tabs |-> ts, log |-> log]
     ELSE [tabs |-> BrowserUngroup(ts, grouped),
           log |-> Append(log, Request("ungroup", grouped, 0, TRUE))]

\* A groupMap that would put every grouped tab under the first group id.
GroupMap_merged(tabsWithGroups) ==
  IF tabsWithGroups = <<>> THEN <<>>
  ELSE <<[groupId |-> tabsWithGroups[1].groupId,
          tabIds |-> {tabsWithGroups[i].id : i \in 1..Len(tabsWithGroups)}]>>

\* The groupMap of restorePreviousState: the snapshot group ids in order of
\* first appearance, each with the ids of its valid tabs.
GroupMap(tabsWithGroups) ==
  LET firsts == {i \in 1..Len(tabsWithGroups) :
                   \A j \in 1..(i - 1) : tabsWithGroups[j].groupId # tabsWithGroups[i].groupId}
      keys == SetToSeq(firsts)
  IN [k \in 1..Len(keys) |->
        [groupId |-> tabsWithGroups[keys[k]].groupId,
         tabIds |-> {tabsWithGroups[i].id : i \in
                       {j \in 1..Len(tabsWithGroups) :
                          tabsWithGroups[j].groupId = tabsWithGroups[keys[k]].groupId}}]]

\* The loop that recreates the groups of the snapshot: createTabGroup, then
\* updateTabGroup with the recorded title and color when the recorded title
\* is not empty.
RECURSIVE RestoreGroups(_, _, _, _, _)
RestoreGroups(ts, gs, entries, snap, log) ==
  IF entries = <<>> THEN [tabs |-> ts, groups |-> gs, log |-> log]
  ELSE LET e == Head(entries)
           newGroupId == FreshGroupId(ts, DOMAIN snap.groups)
           ts1 == BrowserGroup(ts, e.tabIds, newGroupId)
           gs0 == LiveGroups(ts1, Put(gs, newGroupId, [title |-> "", color |-> NextColor(gs)]))
           log1 == Append(log, Request("group", e.tabIds, newGroupId, TRUE))
           update == e.groupId \in DOMAIN snap.groups /\ snap.groups[e.groupId].title # ""
           gs1 == IF update
                  THEN Put(gs0, newGroupId,
                           [title |-> snap.groups[e.groupId].title,
                            color |-> IF snap.groups[e.groupId].color # ""
                                      THEN snap.groups[e.groupId].color ELSE "grey"])
                  ELSE gs0
           log2 == IF update THEN Append(log1, Request("update", {}, newGroupId, TRUE))
                   ELSE log1
       IN RestoreGroups(ts1, gs1, Tail(entries), snap, log2)

\* A restore whose first rejected move would end the moves.
RestoreSteps_stopsOnFailure(ts, gs, snap, validTabs, failing) ==
  LET u == ungroupAllTabs(ts, <<>>)
      m == ApplyMoves(u.tabs,
                      [i \in 1..Len(validTabs) |->
                         [id |-> validTabs[i].id, index |-> validTabs[i].index]],
                      failing, TRUE, u.log)
      tabsWithGroups == SelectSeq(validTabs, IsGrouped)
  IN RestoreGroups(m.tabs, LiveGroups(m.tabs, gs), GroupMap(tabsWithGroups), snap, m.log)

\* The body of restorePreviousState once valid tabs are known: ungroup all,
\* move every valid tab to its recorded index in snapshot order (a rejected
\* move is skipped), recreate the groups.
RestoreSteps(ts, gs, snap, validTabs, failing) ==
  LET u == ungroupAllTabs(ts, <<>>)
      m == ApplyMoves(u.tabs,
                      [i \in 1..Len(validTabs) |->
                         [id |-> validTabs[i].id, index |-> validTabs[i].index]],
                      failing, FALSE, u.log)
      tabsWithGroups == SelectSeq(validTabs, IsGrouped)
  IN RestoreGroups(m.tabs, LiveGroups(m.tabs, gs), GroupMap(tabsWithGroups), snap, m.log)

\* Every snapshot tab, open or not.
ValidTabs_unfiltered(ts, snap) == snap.tabs

\* The snapshot tabs whose id is still open.
ValidTabs(ts, snap) ==
  LET currentTabIds == IdsOf(QueryTabs(ts))
      Valid(t) == t.id \in currentTabIds
  IN SelectSeq(snap.tabs, Valid)

\* The outcome of a restorePreviousState that returns false before it changes
\* anything: the slot keeps the snapshot.
RestoreFailed(ts, gs, prev, log) ==
  [tabs |-> ts, groups |-> gs, previousState |-> prev, log |-> log, result |-> FALSE]

\* The ungroup request of ungroupAllTabs, rejected by the browser; when no tab
\* is grouped it is the tab query of ungroupAllTabs that fails.
RejectedUngroup(ts) ==
  LET grouped == {ts[i].id : i \in {j \in 1..Len(ts) : IsGrouped(ts[j])}}
  IN IF grouped = {} THEN <<>> ELSE <<Request("ungroup", grouped, 0, FALSE)>>

\* A restorePreviousState that would leave the snapshot in the slot.
restorePreviousState_keepsSnapshot(ts, gs, prev, failing, fatal) ==
  IF ~canUndo(prev) \/ fatal = "query" THEN RestoreFailed(ts, gs, prev, <<>>)
  ELSE IF Len(ValidTabs(ts, prev[1])) = 0 THEN RestoreFailed(ts, gs, prev, <<>>)
  ELSE IF fatal = "ungroup" THEN RestoreFailed(ts, gs, prev, RejectedUngroup(ts))
  ELSE LET g == RestoreSteps(ts, gs, prev[1], ValidTabs(ts, prev[1]), failing)
       IN [tabs |-> g.tabs, groups |-> g.groups, previousState |-> prev,
           log |-> g.log, result |-> TRUE]

\* A restorePreviousState whose catch would clear the slot.
restorePreviousState_clearsOnFailure(ts, gs, prev, failing, fatal) ==
  IF ~canUndo(prev) THEN RestoreFailed(ts, gs, prev, <<>>)
  ELSE IF fatal = "query" THEN RestoreFailed(ts, gs, Null, <<>>)
  ELSE IF Len(ValidTabs(ts, prev[1])) = 0 THEN RestoreFailed(ts, gs, prev, <<>>)
  ELSE IF fatal = "ungroup" THEN RestoreFailed(ts, gs, Null, RejectedUngroup(ts))
  ELSE LET g == RestoreSteps(ts, gs, prev[1], ValidTabs(ts, prev[1]), failing)
       IN [tabs |-> g.tabs, groups |-> g.groups, previousState |-> Null,
           log |-> g.log, result |-> TRUE]

\* restorePreviousState: the tab strip, the groups, the slot, the log and the
\* returned boolean.  failing holds the tabs whose move the browser rejects;
\* fatal is "query" when the tab query of the restore is rejected, "ungroup"
\* when ungroupAllTabs throws, and "none" otherwise.  Both rejections are
\* caught by the outer catch, which returns false.
restorePreviousState(ts, gs, prev, failing, fatal) ==
  IF ~canUndo(prev) \/ fatal = "query" THEN RestoreFailed(ts, gs, prev, <<>>)
  ELSE IF Len(ValidTabs(ts, prev[1])) = 0 THEN RestoreFailed(ts, gs, prev, <<>>)
  ELSE IF fatal = "ungroup" THEN RestoreFailed(ts, gs, prev, RejectedUngroup(ts))
  ELSE LET g == RestoreSteps(ts, gs, prev[1], ValidTabs(ts, prev[1]), failing)
       IN [tabs |-> g.tabs, groups |-> g.groups, previousState |-> Null,
           log |-> g.log, result |-> TRUE]

(***************************************************************************)
(* TabSorter.                                                              *)
(***************************************************************************)
\* A filter that would let pinned tabs through.
Eligible_withPinned(t) == ~IsInternalUrl(t.url)

\* TabSorter.getAllTabs: the queried tabs without the internal-scheme and
\* the pinned ones.
Eligible(t) == ~IsInternalUrl(t.url) /\ ~t.pinned

getAllTabs(ts) == SelectSeq(QueryTabs(ts), Eligible)

\* Array.prototype.sort is stable: x goes after every element that does not
\* compare greater than it.
RECURSIVE InsertSorted(_, _, _)
InsertSorted(sorted, x, property) ==
  IF sorted = <<>> THEN <<x>>
  ELSE IF LocaleCompare(ToLowerCase(Head(sorted)[property]), ToLowerCase(x[property])) <= 0
       THEN <<Head(sorted)>> \o InsertSorted(Tail(sorted), x, property)
  ELSE <<x>> \o sorted

RECURSIVE sortTabsByProperty(_, _)
sortTabsByProperty(ts, property) ==
  IF ts = <<>> THEN <<>>
  ELSE InsertSorted(sortTabsByProperty(SubSeq(ts, 1, Len(ts) - 1), property),
                    ts[Len(ts)], property)

\* reorderTabs: one move per sorted tab, to its position in the sorted array;
\* all are issued before any is awaited, and one rejection rejects the call.
reorderTabs(ts, sortedTabs, failing) ==
  ApplyMoves(ts, [i \in 1..Len(sortedTabs) |-> [id |-> sortedTabs[i].id, index |-> i - 1]],
             failing, FALSE, <<>>)

\* The moves sortTabsWithinGroups derives for one sorted block that starts at
\* startIndex: a tab whose queried index already is the target gets none.
BlockMoves(sortedBlock, startIndex) ==
  LET all == [i \in 1..Len(sortedBlock) |->
                [id |-> sortedBlock[i].id, index |-> startIndex + i - 1,
                 was |-> sortedBlock[i].index]]
      Needed(m) == m.was # m.index
      needed == SelectSeq(all, Needed)
  IN [i \in 1..Len(needed) |-> [id |-> needed[i].id, index |-> needed[i].index]]

MinIndex(ts) == CHOOSE x \in {ts[i].index : i \in 1..Len(ts)} :
                  \A i \in 1..Len(ts) : x <= ts[i].index
MaxIndex(ts) == CHOOSE x \in {ts[i].index : i \in 1..Len(ts)} :
                  \A i \in 1..Len(ts) : x >= ts[i].index

RECURSIVE GroupMoves(_, _, _)
GroupMoves(groupList, queried, property) ==
  IF groupList = <<>> THEN <<>>
  ELSE LET InGroup(t) == t.groupId = Head(groupList).id
           groupTabs == SelectSeq(queried, InGroup)
           here == IF Len(groupTabs) = 0 THEN <<>>
                   ELSE BlockMoves(sortTabsByProperty(groupTabs, property),
                                   MinIndex(groupTabs))
       IN here \o GroupMoves(Tail(groupList), queried, property)

\* sortTabsWithinGroups: each group is sorted inside its index range, then the
\* ungrouped tabs are sorted as one block placed after the last grouped tab.
\* Every move is awaited, so the first rejection ends the call.
sortTabsWithinGroups(ts, gs, queried, property, failing) ==
  LET NotGrouped(t) == ~IsGrouped(t)
      ungroupedTabs == SelectSeq(queried, NotGrouped)
      groupedTabs == SelectSeq(queried, IsGrouped)
      startIndex == IF Len(groupedTabs) > 0 THEN MaxIndex(groupedTabs) + 1 ELSE 0
      tail == IF Len(ungroupedTabs) > 0
              THEN BlockMoves(sortTabsByProperty(ungroupedTabs, property), startIndex)
              ELSE <<>>
  IN ApplyMoves(ts, GroupMoves(QueryGroups(ts, gs), queried, property) \o tail,
                failing, TRUE, <<>>)

\* sortByTitle / sortByUrl: snapshot, query, then the grouped or the plain
\* path.  A rejected move makes the call throw.
sortBy(ts, gs, prev, property, queriesOk, failing) ==
  LET slot == saveCurrentState(ts, gs, prev, queriesOk)
      queried == getAllTabs(ts)
      hasGroupedTabs == \E i \in 1..Len(queried) : IsGrouped(queried[i])
      r == IF hasGroupedTabs
           THEN sortTabsWithinGroups(ts, gs, queried, property, failing)
           ELSE reorderTabs(ts, sortTabsByProperty(queried, property), failing)
  IN [tabs |-> r.tabs, groups |-> LiveGroups(r.tabs, gs), previousState |-> slot,
      log |-> r.log, result |-> IF r.failed THEN "error" ELSE "ok"]

(***************************************************************************)
(* TabOrganizer.                                                           *)
(***************************************************************************)
\* The category labels an analysis can assign.
Labels == {"Misc", "Tech"}

LowerAlphabet ==
  <<"a", "b", "c", "d", "e", "f", "g", "h", "i", "j", "k", "l", "m",
    "n", "o", "p", "q", "r", "s", "t", "u", "v", "w", "x", "y", "z">>

UpperAlphabet ==
  <<"A", "B", "C", "D", "E", "F", "G", "H", "I", "J", "K", "L", "M",
    "N", "O", "P", "Q", "R", "S", "T", "U", "V", "W", "X", "Y", "Z">>

\* The position of a character in an alphabet, 0 when it is not a letter of it.
LetterIndex(alphabet, c) ==
  IF \E i \in DOMAIN alphabet : alphabet[i] = c
    THEN CHOOSE i \in DOMAIN alphabet : alphabet[i] = c
    ELSE 0

\* The characters of a label (category.split('')).
Characters(label) ==
  CASE label = "Misc" -> <<"M", "i", "s", "c">>
    [] label = "Tech" -> <<"T", "e", "c", "h">>
    [] label = "News" -> <<"N", "e", "w", "s">>

\* String.prototype.charCodeAt(0) of a character: letters, space, ampersand.
charCodeAt(c) ==
  LET upper == LetterIndex(UpperAlphabet, c)
      lower == LetterIndex(LowerAlphabet, c)
  IN CASE upper # 0 -> 64 + upper
       [] lower # 0 -> 96 + lower
       [] c = " " -> 32
       [] c = "&" -> 38

CharCodes(chars) == [i \in DOMAIN chars |-> charCodeAt(chars[i])]

RECURSIVE Sum(_)
Sum(s) == IF s = <<>> THEN 0 ELSE Head(s) + Sum(Tail(s))

\* A getCategoryColor that would hash a category by its length.
getCategoryColor_byLength(category) == colors[(Len(category) % Len(colors)) + 1]

\* getCategoryColor, on the characters of the category: the character codes
\* summed, modulo the palette size.
getCategoryColor(category) == colors[(Sum(CharCodes(category)) % Len(colors)) + 1]

\* The categories of tabCategories in key order (ascending tab id), without
\* repetition.
Categories(tabCategories) ==
  LET ids == SetToSeq(DOMAIN tabCategories)
      firsts == {i \in 1..Len(ids) :
                   \A j \in 1..(i - 1) : tabCategories[ids[j]] # tabCategories[ids[i]]}
      keys == SetToSeq(firsts)
  IN [k \in 1..Len(keys) |-> tabCategories[ids[keys[k]]]]

\* No group or update request is rejected.
NoRejection == [group |-> {}, update |-> {}]

\* One step of the loop of groupTabsByCategory, for one category: the group
\* request and then the update with the category as title and its color.
\* rejected.group and rejected.update hold the categories whose group request
\* and whose update request the browser rejects; both rejections are caught
\* inside the loop.
GroupCategory(ts, gs, category, tabCategories, used, rejected, log) ==
  LET tabIds == {id \in DOMAIN tabCategories : tabCategories[id] = category}
      groupId == FreshGroupId(ts, used)
      ts1 == BrowserGroup(ts, tabIds, groupId)
      created == LiveGroups(ts1, Put(gs, groupId, [title |-> "", color |-> NextColor(gs)]))
  IN IF category \in rejected.group
     THEN [tabs |-> ts, groups |-> gs,
           log |-> log \o <<Request("group", tabIds, TAB_GROUP_ID_NONE, FALSE)>>]
     ELSE IF category \in rejected.update
     THEN [tabs |-> ts1, groups |-> created,
           log |-> log \o <<Request("group", tabIds, groupId, TRUE),
                            Request("update", {}, groupId, FALSE)>>]
     ELSE [tabs |-> ts1,
           groups |-> Put(created, groupId,
                          [title |-> category, color |-> getCategoryColor(Characters(category))]),
           log |-> log \o <<Request("group", tabIds, groupId, TRUE),
                            Request("update", {}, groupId, TRUE)>>]

\* A groupTabsByCategory whose loop would end at the first rejected request.
RECURSIVE groupTabsByCategory_stopsOnFailure(_, _, _, _, _, _, _)
groupTabsByCategory_stopsOnFailure(ts, gs, categories, tabCategories, used, rejected, log) ==
  IF categories = <<>> THEN [tabs |-> ts, groups |-> gs, log |-> log]
  ELSE LET g == GroupCategory(ts, gs, Head(categories), tabCategories, used, rejected, log)
       IN IF Head(categories) \in rejected.group \cup rejected.update THEN g
          ELSE groupTabsByCategory_stopsOnFailure(g.tabs, g.groups, Tail(categories),
                                                  tabCategories, used, rejected, g.log)

\* groupTabsByCategory: per category one group request for its tabs, then one
\* update with the category as title and its color.
RECURSIVE groupTabsByCategory(_, _, _, _, _, _, _)
groupTabsByCategory(ts, gs, categories, tabCategories, used, rejected, log) ==
  IF categories = <<>> THEN [tabs |-> ts, groups |-> gs, log |-> log]
  ELSE LET g == GroupCategory(ts, gs, Head(categories), tabCategories, used, rejected, log)
       IN groupTabsByCategory(g.tabs, g.groups, Tail(categories), tabCategories, used,
                              rejected, g.log)

\* organizeByContent: snapshot, query, drop the pinned tabs, analyze, group.
\* analysis is the outcome of analyzeTabs: a category for each unpinned tab.
organizeByContent(ts, gs, prev, queriesOk, analysis) ==
  LET slot == saveCurrentState(ts, gs, prev, queriesOk)
      NotPinned(t) == ~t.pinned
      unpinnedTabs == SelectSeq(QueryTabs(ts), NotPinned)
      tabCategories == [id \in IdsOf(unpinnedTabs) |-> analysis[id]]
      used == IF slot = Null THEN {} ELSE DOMAIN slot[1].groups
      g == groupTabsByCategory(ts, gs, Categories(tabCategories), tabCategories, used,
                               NoRejection, <<>>)
  IN IF Len(unpinnedTabs) = 0
     THEN [tabs |-> ts, groups |-> gs, previousState |-> slot, log |-> <<>>,
           result |-> "error"]
     ELSE [tabs |-> g.tabs, groups |-> g.groups, previousState |-> slot, log |-> g.log,
           result |-> "ok"]

(***************************************************************************)
(* Initial states: a pinned prefix, contiguous groups among the unpinned   *)
(* tabs, and tab 1 showing an internal page or not.  No snapshot is held.  *)
(***************************************************************************)
\* Events the popup does not control, during one session: a browser request
\* that is rejected, or a tab the user closes.
MaxEvents == 1

\* The orders in which n tabs can be open.
Orders(n) == {o \in [1..n -> 1..n] : \A i, j \in 1..n : i # j => o[i] # o[j]}

InitGroupIds == {1, 2}

\* The first group is untitled, the second titled.
InitGroupStyle(g) ==
  IF g = 1 THEN [title |-> "", color |-> "red"] ELSE [title |-> "Work", color |-> "blue"]

\* Groups hold unpinned tabs and are contiguous.
GroupAssignments(n, p) ==
  {ga \in [1..n -> {TAB_GROUP_ID_NONE} \cup InitGroupIds] :
     /\ \A i \in 1..p : ga[i] = TAB_GROUP_ID_NONE
     /\ \A i, j \in 1..n :
          (i < j /\ ga[i] = ga[j] /\ ga[i] # TAB_GROUP_ID_NONE)
            => \A k \in i..j : ga[k] = ga[i]
     /\ \A i \in 1..n :
          ga[i] > 1 => \E j \in 1..(i - 1) : ga[j] = ga[i] - 1}

InitTabs(o, p, ga, internal) ==
  [i \in 1..Len(o) |->
     [id |-> o[i],
      url |-> IF o[i] \in internal THEN InternalUrl ELSE UrlOf(o[i]),
      title |-> TitleOf(o[i]),
      pinned |-> i <= p,
      groupId |-> ga[i]]]

InitWindow(n, orders, internals) ==
  \E o \in orders, p \in 0..(n \div 2), internal \in internals :
    \E ga \in GroupAssignments(n, p) :
      /\ tabs = InitTabs(o, p, ga, internal)
      /\ groups = [g \in {ga[i] : i \in 1..n} \ {TAB_GROUP_ID_NONE} |-> InitGroupStyle(g)]

\* The action buttons of popup.html, and the undo button, which is the only
\* one that starts disabled.
ActionButtons == {"sortByTitle", "sortByUrl", "organizeByContent", "ungroupAllTabs"}

Buttons == ActionButtons \cup {"undoButton"}

InitButtons ==
  /\ enabled = [b \in Buttons |-> b # "undoButton"]
  /\ running = <<>>

InitPopup ==
  /\ InitButtons
  /\ call = [fn |-> "none", returned |-> TRUE]
  /\ result = <<>>
  /\ previousState = Null
  /\ lastOp = "init"
  /\ lastResult = "ok"
  /\ requests = <<>>
  /\ saved = FALSE
  /\ captured = <<>>
  /\ captures = 0

\* A session of the popup on a window of MaxTabs - 1 tabs in id order, the
\* second one showing an internal page.
SessionTabs == MaxTabs - 1

Init ==
  /\ InitWindow(SessionTabs, {[i \in 1..SessionTabs |-> i]}, {{2}})
  /\ InitPopup
  /\ events = 0

(***************************************************************************)
(* Operations: the popup's click handlers, each run to completion.         *)
(***************************************************************************)
\* What the browser does to the requests of one operation: whether the
\* queries of saveCurrentState succeed, and the tabs whose move it rejects.
NoFault == [queriesOk |-> TRUE, failing |-> {}]

Faults ==
  {NoFault} \cup
  (IF events < MaxEvents
   THEN {[queriesOk |-> FALSE, failing |-> {}]}
          \cup {[queriesOk |-> TRUE, failing |-> {id}] : id \in IdsOf(tabs)}
   ELSE {})

Finish(op, r, f) ==
  /\ f.failing # {} => \E i \in 1..Len(r.log) : ~r.log[i].ok
  /\ tabs' = r.tabs
  /\ groups' = r.groups
  /\ previousState' = r.previousState
  /\ requests' = r.log
  /\ lastOp' = op
  /\ lastResult' = r.result
  /\ events' = IF f = NoFault THEN events ELSE events + 1
  /\ saved' = (op # "undo" /\ f.queriesOk)
  /\ captured' = IF op = "undo" THEN (IF r.result = "ok" THEN <<>> ELSE captured)
                 ELSE IF f.queriesOk THEN <<[tabs |-> tabs, groups |-> groups]>>
                 ELSE captured
  /\ captures' = IF op # "undo" /\ f.queriesOk /\ captures < 2 THEN captures + 1
                 ELSE captures
  /\ UNCHANGED <<uiVars, fnVars>>

SortByTitle ==
  \E f \in Faults :
    \E r \in {sortBy(tabs, groups, previousState, "title", f.queriesOk, f.failing)} :
      Finish("sortByTitle", r, f)

SortByUrl ==
  \E f \in Faults :
    \E r \in {sortBy(tabs, groups, previousState, "url", f.queriesOk, f.failing)} :
      Finish("sortByUrl", r, f)

\* What analyzeTabs may return for the tabs of the window: every analysis
\* fell back to "Misc", or the backend answered for each tab.
Analyses ==
  {[id \in IdsOf(tabs) |-> "Misc"],
   [id \in IdsOf(tabs) |-> IF id % 2 = 1 THEN "Tech" ELSE "Misc"]}

OrganizeByContent ==
  \E f \in {g \in Faults : g.failing = {}}, analysis \in Analyses :
    \E r \in {organizeByContent(tabs, groups, previousState, f.queriesOk, analysis)} :
      Finish("organizeByContent", r, f)

\* The ungroupAllTabs click handler: snapshot, then ungroupAllTabs.
UngroupAllTabs ==
  \E f \in {g \in Faults : g.failing = {}} :
    \E u \in {ungroupAllTabs(tabs, <<>>)} :
      Finish("ungroupAllTabs",
             [tabs |-> u.tabs, groups |-> LiveGroups(u.tabs, groups),
              previousState |-> saveCurrentState(tabs, groups, previousState, f.queriesOk),
              log |-> u.log, result |-> "ok"], f)

\* The undoButton click handler: nothing without a snapshot, else
\* restorePreviousState.
Undo ==
  \E f \in {g \in Faults : g.queriesOk} :
    \E r \in {restorePreviousState(tabs, groups, previousState, f.failing, "none")} :
      Finish("undo",
             [tabs |-> r.tabs, groups |-> r.groups, previousState |-> r.previousState,
              log |-> r.log,
              result |-> IF ~canUndo(previousState) THEN "noop"
                         ELSE IF r.result THEN "ok" ELSE "error"], f)

\* The user closes a tab while a snapshot is held.
CloseTab ==
  \E p \in 1..Len(tabs) :
    /\ Len(tabs) > 1
    /\ canUndo(previousState)
    /\ events < MaxEvents
    /\ tabs' = RemoveAt(tabs, p)
    /\ groups' = LiveGroups(RemoveAt(tabs, p), groups)
    /\ events' = events + 1
    /\ lastOp' = "close"
    /\ lastResult' = "ok"
    /\ requests' = <<>>
    /\ UNCHANGED <<previousState, saved, captured, captures, uiVars, fnVars>>

Next ==
  \/ SortByTitle
  \/ SortByUrl
  \/ OrganizeByContent
  \/ UngroupAllTabs
  \/ Undo
  \/ CloseTab

Spec == Init /\ [][Next]_vars

(***************************************************************************)
(* The sort engine alone, on every order of the tabs, with a browser that  *)
(* accepts every request.                                                  *)
(***************************************************************************)
InitSort ==
  /\ InitWindow(MaxTabs, Orders(MaxTabs), {{}, {1}})
  /\ InitPopup
  /\ events = MaxEvents

NextSort == SortByTitle \/ SortByUrl

SpecSort == InitSort /\ [][NextSort]_vars

(***************************************************************************)
(* Properties.                                                             *)
(***************************************************************************)
GroupOf(ts, id) == ts[PosOf(ts, id)].groupId

\* The ids of ts that are in keep, in the order of ts.
OrderOf(ts, keep) ==
  LET Kept(t) == t.id \in keep
  IN IdSeq(SelectSeq(ts, Kept))

\* The tabs in ids are partitioned into groups in ts1 as they are in ts2.
SamePartition(ts1, ts2, ids) ==
  /\ \A a \in ids : IsGrouped(ts1[PosOf(ts1, a)]) <=> IsGrouped(ts2[PosOf(ts2, a)])
  /\ \A a, b \in ids :
       (IsGrouped(ts1[PosOf(ts1, a)]) /\ GroupOf(ts1, a) = GroupOf(ts1, b))
         <=> (IsGrouped(ts2[PosOf(ts2, a)]) /\ GroupOf(ts2, a) = GroupOf(ts2, b))

AllAccepted(log) == \A i \in 1..Len(log) : log[i].ok

Mutating == {"sortByTitle", "sortByUrl", "organizeByContent", "ungroupAllTabs"}

\* C1: snapshot/restore round trip.  When a restore succeeds with every
\* request accepted, the tabs of the captured window that are still open are
\* in the relative order they had at capture time and are partitioned into
\* groups as they were at capture time, whatever operations and tab closes
\* came in between.
C1_RoundTrip ==
  [][(lastOp' = "undo" /\ lastResult' = "ok" /\ AllAccepted(requests'))
       => /\ captured # <<>>
          /\ LET before == captured[1].tabs
                 open == IdsOf(before) \cap IdsOf(tabs')
             IN /\ OrderOf(tabs', open) = OrderOf(before, open)
                /\ SamePartition(tabs', before, open)]_vars

\* C1 witness: a restore has succeeded after a tab of the captured window
\* was closed, and it has recreated a group.
C1_Witness ==
  /\ lastOp = "undo" /\ lastResult = "ok" /\ AllAccepted(requests)
  /\ Len(tabs) < SessionTabs
  /\ \E i \in 1..Len(requests) : requests[i].kind = "group"
  /\ \E i \in 1..Len(requests) : requests[i].kind = "move"

\* C2: single-slot snapshot.  The slot holds at most one snapshot, and the
\* snapshot it holds records the window of the latest successful capture:
\* its tabs in order with their indices and group ids, and its groups' titles
\* and colors.  An earlier capture is never what the slot holds.
C2_SingleSlot ==
  /\ Len(previousState) <= 1
  /\ (previousState = Null) <=> (captured = <<>>)
  /\ previousState # Null =>
       LET snap == previousState[1]
           win == captured[1]
       IN /\ IdSeq(snap.tabs) = IdSeq(win.tabs)
          /\ \A i \in 1..Len(snap.tabs) :
               /\ snap.tabs[i].index = i - 1
               /\ snap.tabs[i].groupId = win.tabs[i].groupId
               /\ snap.tabs[i].title = win.tabs[i].title
               /\ snap.tabs[i].url = win.tabs[i].url
          /\ snap.groups = win.groups

\* C2 witness: a second capture has replaced the first, and the window it
\* recorded is not the initial one.
C2_Witness ==
  /\ captures = 2
  /\ previousState # Null
  /\ IdSeq(previousState[1].tabs) # [i \in 1..Len(previousState[1].tabs) |-> i]
  /\ saved

\* C3: undo is single-use.  After a successful restore no snapshot is held;
\* a restore without a snapshot reports the no-op result and issues no
\* request to the browser, leaving the window as it is.
C3_UndoSingleUse ==
  [][lastOp' = "undo" =>
       /\ (lastResult' = "ok" => ~canUndo(previousState'))
       /\ (~canUndo(previousState) =>
             /\ lastResult' = "noop"
             /\ requests' = <<>>
             /\ tabs' = tabs /\ groups' = groups
             /\ ~canUndo(previousState'))
       /\ (lastResult' = "noop" => ~canUndo(previousState))]_vars

\* C3 witness: an undo right after a successful undo found no snapshot.
C3_Witness ==
  /\ lastOp = "undo" /\ lastResult = "noop"
  /\ captures > 0
  /\ previousState = Null

MembersOf(ts, g) == {ts[i].id : i \in {j \in 1..Len(ts) : ts[j].groupId = g}}

\* C4: undo after organize.  When a restore succeeds right after a completed
\* organize, every group of the captured window exists again with exactly
\* its tabs, its recorded title and its recorded color (untitled groups
\* included), and no other group remains.
C4_UndoAfterOrganize ==
  [][(/\ lastOp = "organizeByContent" /\ lastResult = "ok" /\ saved
      /\ lastOp' = "undo" /\ lastResult' = "ok" /\ AllAccepted(requests'))
       => LET win == captured[1]
          IN /\ \A g \in DOMAIN win.groups :
                  \E h \in DOMAIN groups' :
                    /\ MembersOf(tabs', h) = MembersOf(win.tabs, g)
                    /\ groups'[h].title = win.groups[g].title
                    /\ groups'[h].color = win.groups[g].color
             /\ \A h \in DOMAIN groups' :
                  \E g \in DOMAIN win.groups :
                    MembersOf(tabs', h) = MembersOf(win.tabs, g)]_vars

\* C5: pinned invariance.  A sort or an organize names no pinned tab in a
\* move, group or ungroup request, and leaves every pinned tab at its index.
C5_PinnedInvariance ==
  [][lastOp' \in {"sortByTitle", "sortByUrl", "organizeByContent"}
       => /\ \A i \in 1..Len(requests') :
               requests'[i].kind \in {"move", "group", "ungroup"}
                 => \A id \in requests'[i].ids : ~tabs[PosOf(tabs, id)].pinned
          /\ \A p \in 1..Len(tabs) :
               tabs[p].pinned => (tabs'[p].id = tabs[p].id /\ tabs'[p].pinned)]_vars

\* C5 witness: a sort has moved tabs of a window whose first tab is pinned
\* and shows an ordinary page.
C5_Witness ==
  /\ lastOp \in {"sortByTitle", "sortByUrl"} /\ lastResult = "ok"
  /\ tabs[1].pinned /\ ~IsInternalUrl(tabs[1].url)
  /\ \E i \in 1..Len(requests) : requests[i].kind = "move"

\* C10: every sort, organize and ungroup-all captures the window before it
\* mutates it, so after an operation that changed the window the slot holds
\* the window as it was when that operation started.
C10_SnapshotAtStart ==
  [][(lastOp' \in Mutating /\ tabs' # tabs)
       => /\ previousState' # Null
          /\ IdSeq(previousState'[1].tabs) = IdSeq(tabs)
          /\ \A i \in 1..Len(tabs) : previousState'[1].tabs[i].groupId = tabs[i].groupId]_vars

(***************************************************************************)
(* Properties of the sort engine (SpecSort).                               *)
(***************************************************************************)
\* The sort key of a tab: the property, lower-cased.
Key(t, property) == ToLowerCase(t[property])

Sorts == {"sortByTitle", "sortByUrl"}

PropertyOf(op) == IF op = "sortByTitle" THEN "title" ELSE "url"

\* The step is a sort that completed with every move accepted.
SortOk == lastOp' \in Sorts /\ lastResult' = "ok"

EligibleIds(ts) == {ts[i].id : i \in {j \in 1..Len(ts) : Eligible(ts[j])}}

HasGroupedTabs(ts) == \E i \in 1..Len(ts) : Eligible(ts[i]) /\ IsGrouped(ts[i])

PositionsOf(ts, g) == {i \in 1..Len(ts) : ts[i].groupId = g}

\* The tabs of ts at the positions P are in ascending order of the key.
Ascending(ts, P, property) ==
  \A i, j \in P : i < j => LocaleCompare(Key(ts[i], property), Key(ts[j], property)) <= 0

\* C6: sort with a pinned prefix.  In a window whose unpinned tabs are all
\* ungrouped and non-internal, after sortByTitle completes the pinned tabs
\* are where they were and the unpinned tabs, which follow them, are in
\* case-insensitive ascending title order.
C6_SortAfterPinnedPrefix ==
  [][(/\ lastOp' = "sortByTitle" /\ lastResult' = "ok"
      /\ \A i \in 1..Len(tabs) :
           ~tabs[i].pinned => (~IsGrouped(tabs[i]) /\ ~IsInternalUrl(tabs[i].url)))
       => /\ \A p \in 1..Len(tabs) :
               tabs[p].pinned => (tabs'[p].id = tabs[p].id /\ tabs'[p].pinned)
          /\ \A p \in 1..Len(tabs) : ~tabs[p].pinned => ~tabs'[p].pinned
          /\ Ascending(tabs', {i \in 1..Len(tabs') : ~tabs'[i].pinned}, "title")]_vars

\* C7: sort idempotence.  A completed sort that directly follows a completed
\* sort by the same key leaves the order of the tabs as the first one left
\* it.
C7_SortIdempotent ==
  [][(/\ lastOp \in Sorts /\ lastResult = "ok"
      /\ lastOp' = lastOp /\ lastResult' = "ok")
       => IdSeq(tabs') = IdSeq(tabs)]_vars

\* C8: grouped sort.  When an eligible tab is in a group, a completed sort
\* leaves every tab in the group it was in, every group on the index range
\* it occupied, and the eligible tabs of every group in ascending order of
\* the key.
C8_GroupedSort ==
  [][(SortOk /\ HasGroupedTabs(tabs))
       => /\ \A i \in 1..Len(tabs) : GroupOf(tabs', tabs[i].id) = tabs[i].groupId
          /\ \A g \in GroupIdsOf(tabs) : PositionsOf(tabs', g) = PositionsOf(tabs, g)
          /\ \A g \in GroupIdsOf(tabs) :
               Ascending(tabs', {i \in PositionsOf(tabs', g) : Eligible(tabs'[i])},
                         PropertyOf(lastOp'))]_vars

\* C9: sort stability.  Two eligible tabs whose keys are equal after
\* lower-casing are, after a completed sort, in the relative order they were
\* in before it.
C9_SortStable ==
  [][SortOk
       => \A a, b \in EligibleIds(tabs) :
            (/\ Key(tabs[PosOf(tabs, a)], PropertyOf(lastOp'))
                  = Key(tabs[PosOf(tabs, b)], PropertyOf(lastOp'))
             /\ PosOf(tabs, a) < PosOf(tabs, b))
              => PosOf(tabs', a) < PosOf(tabs', b)]_vars

(***************************************************************************)
(* The popup's buttons.  Each click handler is an async function: the      *)
(* click runs it up to its first await, and it returns in a later step.    *)
(* This specification follows the buttons, the handlers in flight and the  *)
(* snapshot slot; the window is left as it is.                             *)
(***************************************************************************)
\* Handlers the specification lets be in flight at once.
MaxInFlight == 2

\* UIManager.setButtonsState
setButtonsState(en, buttonStates) ==
  [b \in Buttons |-> IF b \in DOMAIN buttonStates THEN buttonStates[b] ELSE en[b]]

\* The four action buttons, all set to v.
ActionButtonsState(v) == [b \in ActionButtons |-> v]

Handler(op, phase) == [op |-> op, phase |-> phase]

\* A click on an action button: the handler disables the four action buttons
\* and awaits the operation.
ClickAction ==
  \E b \in ActionButtons :
    /\ enabled[b]
    /\ Len(running) < MaxInFlight
    /\ enabled' = setButtonsState(enabled, ActionButtonsState(FALSE))
    /\ running' = Append(running, Handler(b, "started"))
    /\ UNCHANGED <<tabs, groups, previousState, lastOp, lastResult, requests, events,
                   saved, captured, captures, fnVars>>

\* The operation's saveCurrentState call.
SaveState ==
  \E i \in 1..Len(running), queriesOk \in BOOLEAN :
    /\ running[i].op \in ActionButtons
    /\ running[i].phase = "started"
    /\ running' = [running EXCEPT ![i].phase = "saved"]
    /\ previousState' = saveCurrentState(tabs, groups, previousState, queriesOk)
    /\ saved' = queriesOk
    /\ UNCHANGED <<tabs, groups, lastOp, lastResult, requests, events, captured,
                   captures, enabled, fnVars>>

\* An action handler returns: on success it enables the undo button and the
\* action buttons, in its catch block the action buttons only.
ReturnAction ==
  \E i \in 1..Len(running), ok \in BOOLEAN :
    /\ running[i].op \in ActionButtons
    /\ running[i].phase = "saved"
    /\ running' = RemoveAt(running, i)
    /\ enabled' = IF ok
                  THEN setButtonsState(enabled, [b \in Buttons |-> TRUE])
                  ELSE setButtonsState(enabled, ActionButtonsState(TRUE))
    /\ lastOp' = running[i].op
    /\ lastResult' = IF ok THEN "ok" ELSE "error"
    /\ UNCHANGED <<tabs, groups, previousState, requests, events, saved, captured,
                   captures, fnVars>>

\* A click on the undo button: without a snapshot the handler shows 'Nothing
\* to undo' and returns; otherwise it disables all five buttons and awaits
\* restorePreviousState.
ClickUndo ==
  /\ enabled["undoButton"]
  /\ Len(running) < MaxInFlight
  /\ IF ~canUndo(previousState)
     THEN /\ lastOp' = "undo" /\ lastResult' = "noop"
          /\ UNCHANGED uiVars
     ELSE /\ enabled' = setButtonsState(enabled, [b \in Buttons |-> FALSE])
          /\ running' = Append(running, Handler("undoButton", "started"))
          /\ UNCHANGED <<lastOp, lastResult>>
  /\ UNCHANGED <<tabs, groups, previousState, requests, events, saved, captured, captures,
                 fnVars>>

\* The undo handler returns: restorePreviousState succeeds when it finds a
\* snapshot and none of its fatal steps fails, and then clears the slot and
\* the handler disables the undo button; in either case the action buttons
\* are enabled again.
ReturnUndo ==
  \E i \in 1..Len(running), restored \in BOOLEAN :
    /\ running[i].op = "undoButton"
    /\ running' = RemoveAt(running, i)
    /\ LET success == canUndo(previousState) /\ restored
           en == IF success THEN setButtonsState(enabled, [b \in {"undoButton"} |-> FALSE])
                 ELSE enabled
       IN /\ previousState' = IF success THEN Null ELSE previousState
          /\ enabled' = setButtonsState(en, ActionButtonsState(TRUE))
          /\ lastOp' = "undo"
          /\ lastResult' = IF success THEN "ok" ELSE "error"
    /\ UNCHANGED <<tabs, groups, requests, events, saved, captured, captures, fnVars>>

InitButtonsSpec ==
  /\ InitWindow(SessionTabs, {[i \in 1..SessionTabs |-> i]}, {{2}})
  /\ InitPopup
  /\ events = MaxEvents

NextButtons == ClickAction \/ SaveState \/ ReturnAction \/ ClickUndo \/ ReturnUndo

SpecButtons == InitButtonsSpec /\ [][NextButtons]_vars

\* C11: mutual exclusion of operations.  At most one click handler (sort by
\* title, sort by URL, organize, ungroup-all, undo) is in flight at any time.
C11_MutualExclusion == Len(running) <= 1

\* C29: the undo button tracks the snapshot.  Whenever no click handler is in
\* flight, the undo button is enabled exactly when a snapshot is held.
C29_UndoButtonTracksSnapshot ==
  running = <<>> => (enabled["undoButton"] <=> canUndo(previousState))

\* ---------------------------------------------------------------------------
\* Text.  The background script and the organizer work on the characters of a
\* text: a text is the sequence of its characters, each a string of length one.

\* String.prototype.toLowerCase and toUpperCase, character by character.
toLowerCase(text) ==
  [i \in DOMAIN text |->
     IF LetterIndex(UpperAlphabet, text[i]) = 0 THEN text[i]
     ELSE LowerAlphabet[LetterIndex(UpperAlphabet, text[i])]]

toUpperCase(text) ==
  [i \in DOMAIN text |->
     IF LetterIndex(LowerAlphabet, text[i]) = 0 THEN text[i]
     ELSE UpperAlphabet[LetterIndex(LowerAlphabet, text[i])]]

\* String.prototype.includes: the keyword occurs as a run of consecutive
\* characters of the text.
includes(text, keyword) ==
  \E i \in 1..(Len(text) - Len(keyword) + 1) :
    SubSeq(text, i, i + Len(keyword) - 1) = keyword

\* Array.prototype.join with a one-character separator.
RECURSIVE join(_, _)
join(words, separator) ==
  IF words = <<>> THEN <<>>
  ELSE IF Len(words) = 1 THEN Head(words)
  ELSE Head(words) \o <<separator>> \o join(Tail(words), separator)

\* All sequences of at most n elements of a set.
SeqsUpTo(S, n) == UNION {[1..k -> S] : k \in 0..n}

Misc == <<"M", "i", "s", "c">>

\* ---------------------------------------------------------------------------
\* background.js: simulateAICategory, the keyword classifier.

\* The rule table, in the order of the source.
simulateCategories == <<
  [category |-> <<"N", "e", "w", "s">>,
   keywords |-> <<
     <<"n", "e", "w", "s">>,
     <<"a", "r", "t", "i", "c", "l", "e">>,
     <<"p", "o", "l", "i", "t", "i", "c", "s">>,
     <<"w", "o", "r", "l", "d">>>>],
  [category |-> <<"S", "h", "o", "p", "p", "i", "n", "g">>,
   keywords |-> <<
     <<"s", "h", "o", "p">>,
     <<"p", "r", "i", "c", "e">>,
     <<"b", "u", "y">>,
     <<"c", "a", "r", "t">>,
     <<"p", "r", "o", "d", "u", "c", "t">>>>],
  [category |-> <<"M", "e", "d", "i", "a">>,
   keywords |-> <<
     <<"v", "i", "d", "e", "o">>,
     <<"w", "a", "t", "c", "h">>,
     <<"s", "t", "r", "e", "a", "m">>,
     <<"m", "o", "v", "i", "e">>,
     <<"e", "p", "i", "s", "o", "d", "e">>>>],
  [category |-> <<"E", "d", "u", "c", "a", "t", "i", "o", "n">>,
   keywords |-> <<
     <<"l", "e", "a", "r", "n">>,
     <<"c", "o", "u", "r", "s", "e">>,
     <<"e", "d", "u", "c", "a", "t", "i", "o", "n">>,
     <<"t", "u", "t", "o", "r", "i", "a", "l">>>>],
  [category |-> <<"S", "o", "c", "i", "a", "l">>,
   keywords |-> <<
     <<"s", "o", "c", "i", "a", "l">>,
     <<"p", "r", "o", "f", "i", "l", "e">>,
     <<"f", "r", "i", "e", "n", "d">>,
     <<"n", "e", "t", "w", "o", "r", "k">>>>],
  [category |-> <<"T", "e", "c", "h">>,
   keywords |-> <<
     <<"t", "e", "c", "h">>,
     <<"s", "o", "f", "t", "w", "a", "r", "e">>,
     <<"p", "r", "o", "g", "r", "a", "m", "m", "i", "n", "g">>,
     <<"c", "o", "d", "e">>,
     <<"d", "e", "v", "e", "l", "o", "p", "e", "r">>>>],
  [category |-> <<"G", "a", "m", "e", "s">>,
   keywords |-> <<
     <<"g", "a", "m", "e">>,
     <<"p", "l", "a", "y">>,
     <<"g", "a", "m", "i", "n", "g">>>>],
  [category |-> <<"F", "i", "n", "a", "n", "c", "e">>,
   keywords |-> <<
     <<"f", "i", "n", "a", "n", "c", "e">>,
     <<"m", "o", "n", "e", "y">>,
     <<"b", "a", "n", "k">>,
     <<"i", "n", "v", "e", "s", "t">>>>],
  [category |-> <<"T", "r", "a", "v", "e", "l">>,
   keywords |-> <<
     <<"t", "r", "a", "v", "e", "l">>,
     <<"h", "o", "t", "e", "l">>,
     <<"f", "l", "i", "g", "h", "t">>,
     <<"v", "a", "c", "a", "t", "i", "o", "n">>>>],
  [category |-> <<"F", "o", "o", "d">>,
   keywords |-> <<
     <<"f", "o", "o", "d">>,
     <<"r", "e", "c", "i", "p", "e">>,
     <<"r", "e", "s", "t", "a", "u", "r", "a", "n", "t">>,
     <<"c", "o", "o", "k">>>>],
  [category |-> <<"H", "e", "a", "l", "t", "h">>,
   keywords |-> <<
     <<"h", "e", "a", "l", "t", "h">>,
     <<"m", "e", "d", "i", "c", "a", "l">>,
     <<"f", "i", "t", "n", "e", "s", "s">>,
     <<"d", "o", "c", "t", "o", "r">>>>],
  [category |-> <<"S", "p", "o", "r", "t", "s">>,
   keywords |-> <<
     <<"s", "p", "o", "r", "t", "s">>,
     <<"t", "e", "a", "m">>,
     <<"p", "l", "a", "y", "e", "r">>,
     <<"m", "a", "t", "c", "h">>,
     <<"l", "e", "a", "g", "u", "e">>>>],
  [category |-> <<"L", "e", "a", "d", "e", "r", "s", "h", "i", "p">>,
   keywords |-> <<
     <<"l", "e", "a", "d", "e", "r", "s", "h", "i", "p">>,
     <<"m", "a", "n", "a", "g", "e", "m", "e", "n", "t">>,
     <<"l", "e", "a", "d", "e", "r">>,
     <<"t", "e", "a", "m", " ", "l", "e", "a", "d">>>>],
  [category |-> <<"L", "e", "a", "r", "n", "i", "n", "g">>,
   keywords |-> <<
     <<"l", "e", "a", "r", "n", "i", "n", "g">>,
     <<"s", "t", "u", "d", "y">>,
     <<"t", "r", "a", "i", "n", "i", "n", "g">>,
     <<"s", "k", "i", "l", "l">>>>],
  [category |-> <<"R", "e", "s", "e", "a", "r", "c", "h">>,
   keywords |-> <<
     <<"r", "e", "s", "e", "a", "r", "c", "h">>,
     <<"s", "t", "u", "d", "y">>,
     <<"p", "a", "p", "e", "r">>,
     <<"j", "o", "u", "r", "n", "a", "l">>,
     <<"a", "n", "a", "l", "y", "s", "i", "s">>>>],
  [category |-> <<"C", "a", "r", "e", "e", "r">>,
   keywords |-> <<
     <<"c", "a", "r", "e", "e", "r">>,
     <<"j", "o", "b">>,
     <<"r", "e", "s", "u", "m", "e">>,
     <<"i", "n", "t", "e", "r", "v", "i", "e", "w">>,
     <<"e", "m", "p", "l", "o", "y", "m", "e", "n", "t">>>>],
  [category |-> <<"N", "e", "t", "w", "o", "r", "k", "i", "n", "g">>,
   keywords |-> <<
     <<"n", "e", "t", "w", "o", "r", "k">>,
     <<"c", "o", "n", "n", "e", "c", "t">>,
     <<"p", "r", "o", "f", "e", "s", "s", "i", "o", "n", "a", "l">>,
     <<"l", "i", "n", "k", "e", "d", "i", "n">>>>],
  [category |-> <<"A", "n", "a", "l", "y", "t", "i", "c", "s">>,
   keywords |-> <<
     <<"a", "n", "a", "l", "y", "t", "i", "c", "s">>,
     <<"d", "a", "t", "a">>,
     <<"m", "e", "t", "r", "i", "c", "s">>,
     <<"d", "a", "s", "h", "b", "o", "a", "r", "d">>,
     <<"r", "e", "p", "o", "r", "t">>>>],
  [category |-> <<"M", "a", "r", "k", "e", "t", "i", "n", "g">>,
   keywords |-> <<
     <<"m", "a", "r", "k", "e", "t", "i", "n", "g">>,
     <<"c", "a", "m", "p", "a", "i", "g", "n">>,
     <<"p", "r", "o", "m", "o", "t", "i", "o", "n">>,
     <<"a", "d", "v", "e", "r", "t", "i", "s", "e">>>>],
  [category |-> <<"D", "e", "s", "i", "g", "n">>,
   keywords |-> <<
     <<"d", "e", "s", "i", "g", "n">>,
     <<"u", "i">>,
     <<"u", "x">>,
     <<"g", "r", "a", "p", "h", "i", "c">>,
     <<"c", "r", "e", "a", "t", "i", "v", "e">>>>],
  [category |-> <<"D", "o", "c", "u", "m", "e", "n", "t", "a", "t", "i", "o", "n">>,
   keywords |-> <<
     <<"d", "o", "c", "u", "m", "e", "n", "t">>,
     <<"m", "a", "n", "u", "a", "l">>,
     <<"g", "u", "i", "d", "e">>,
     <<"i", "n", "s", "t", "r", "u", "c", "t", "i", "o", "n">>>>],
  [category |-> <<"C", "o", "m", "m", "u", "n", "i", "c", "a", "t", "i", "o", "n">>,
   keywords |-> <<
     <<"c", "o", "m", "m", "u", "n", "i", "c", "a", "t", "i", "o", "n">>,
     <<"c", "h", "a", "t">>,
     <<"m", "e", "s", "s", "a", "g", "e">>,
     <<"e", "m", "a", "i", "l">>>>]>>

\* Array.prototype.some over a rule's keywords.
RuleMatches(item, contentLower) ==
  \E k \in DOMAIN item.keywords : includes(contentLower, item.keywords[k])

\* The for loop over the table from rule i on: the first rule that matches
\* returns its category, and the default is "Misc".
RECURSIVE simulateFrom(_, _)
simulateFrom(i, contentLower) ==
  IF i > Len(simulateCategories) THEN Misc
  ELSE IF RuleMatches(simulateCategories[i], contentLower)
    THEN simulateCategories[i].category
  ELSE simulateFrom(i + 1, contentLower)

\* The classifier that compares the text as it is written (a changed model).
simulateAICategory_caseSensitive(content) == simulateFrom(1, content)

simulateAICategory(content) == simulateFrom(1, toLowerCase(content))

\* The words the classified texts are made of.
MaxWords == 2

ClassifierWords == {
  <<"N", "e", "w", "s">>,
  <<"s", "h", "o", "p">>,
  <<"l", "e", "a", "r", "n", "i", "n", "g">>,
  <<"s", "t", "u", "d", "y">>,
  <<"t", "e", "a", "m">>,
  <<"l", "e", "a", "d">>,
  <<"e", "m", "a", "i", "l">>,
  <<"z", "z", "z">>,
  <<"U", "X">>,
  <<"p", "a", "p", "e", "r">>}

ClassifierTexts == {join(ws, " ") : ws \in SeqsUpTo(ClassifierWords, MaxWords)}

\* A window with no tab and a popup at rest: the state the functions of the
\* background script are applied in.  One of the given calls is pending.
InitBackground(calls) ==
  /\ tabs = <<>>
  /\ groups = <<>>
  /\ events = 0
  /\ InitButtons
  /\ previousState = Null
  /\ lastOp = "init"
  /\ lastResult = "ok"
  /\ requests = <<>>
  /\ saved = FALSE
  /\ captured = <<>>
  /\ captures = 0
  /\ call \in calls
  /\ result = <<>>

\* The pending call returns a value.
Return(value) ==
  /\ ~call.returned
  /\ call' = [call EXCEPT !.returned = TRUE]
  /\ result' = value

windowVars == <<tabs, groups, previousState, lastOp, lastResult, requests, events,
                saved, captured, captures>>

\* The classifier is applied to a text.
InitClassify ==
  InitBackground({[fn |-> "simulateAICategory", content |-> content, returned |-> FALSE] :
                    content \in ClassifierTexts})

Classify ==
  /\ call.fn = "simulateAICategory"
  /\ Return(simulateAICategory(call.content))
  /\ UNCHANGED <<windowVars, uiVars>>

NextClassify == Classify

SpecClassify == InitClassify /\ [][NextClassify]_vars

\* The rules of the table that have a keyword occurring in a text.
MatchingRules(text) ==
  {i \in DOMAIN simulateCategories :
     \E k \in DOMAIN simulateCategories[i].keywords :
       includes(text, simulateCategories[i].keywords[k])}

\* C15: the classifier.  simulateAICategory(text) is the label of the first
\* rule, in table order, one of whose keywords occurs in the lower-cased text,
\* and "Misc" when no rule has such a keyword; so a text that matches rule R
\* and no earlier rule gets R's label.
C15_Classifier ==
  call.fn = "simulateAICategory" /\ call.returned =>
    LET hits == MatchingRules(toLowerCase(call.content)) IN
      /\ hits = {} => result = Misc
      /\ \A r \in hits :
           (\A q \in hits : r <= q) => result = simulateCategories[r].category

\* A text written with capitals that matches two rules got the earlier label.
C15_Witness ==
  /\ call.fn = "simulateAICategory" /\ call.returned
  /\ call.content # toLowerCase(call.content)
  /\ Cardinality(MatchingRules(toLowerCase(call.content))) >= 2
  /\ \E r \in MatchingRules(toLowerCase(call.content)) :
       /\ result = simulateCategories[r].category
       /\ \A q \in MatchingRules(toLowerCase(call.content)) : r <= q

\* ---------------------------------------------------------------------------
\* background.js: formatCategory, the normalisation of a backend's answer.

Quotes == {"\"", "'"}

WhiteSpace == {" ", "\n", "\t"}

\* Array.prototype.slice and String.prototype.slice: the elements at the
\* (0-based) positions from start up to, not including, end.
slice(s, start, end) == SubSeq(s, start + 1, Min(end, Len(s)))

\* String.prototype.trim.
trim(text) ==
  LET kept == {i \in DOMAIN text : text[i] \notin WhiteSpace} IN
    IF kept = {} THEN <<>>
    ELSE SubSeq(text, CHOOSE i \in kept : \A j \in kept : i <= j,
                      CHOOSE i \in kept : \A j \in kept : i >= j)

\* String.prototype.split(/\s+/) from character i on: every run of white space
\* ends the word being read and starts another one.
RECURSIVE splitFrom(_, _, _, _)
splitFrom(text, i, word, inSeparator) ==
  IF i > Len(text) THEN <<word>>
  ELSE IF text[i] \in WhiteSpace
    THEN IF inSeparator THEN splitFrom(text, i + 1, word, TRUE)
         ELSE <<word>> \o splitFrom(text, i + 1, <<>>, TRUE)
  ELSE splitFrom(text, i + 1, Append(word, text[i]), FALSE)

split(text) == splitFrom(text, 1, <<>>, FALSE)

\* word.charAt(0).toUpperCase() + word.slice(1).toLowerCase()
capitalize(word) ==
  toUpperCase(slice(word, 0, 1)) \o toLowerCase(slice(word, 1, Len(word)))

\* The first two words of the answer without its quotes, capitalised.
formattedCategory(categoryText) ==
  LET cleanedText == trim(SelectSeq(categoryText, LAMBDA c : c \notin Quotes))
      words == slice(split(cleanedText), 0, 2)
  IN join([i \in DOMAIN words |-> capitalize(words[i])], " ")

\* Array.prototype.find: the first category equal to the text up to case, or
\* no category.
find(availableCategories, text) ==
  LET equal == {i \in DOMAIN availableCategories :
                  toLowerCase(availableCategories[i]) = toLowerCase(text)}
  IN IF equal = {} THEN <<>>
     ELSE <<availableCategories[CHOOSE i \in equal : \A j \in equal : i <= j]>>

\* The normalisation without the match against the categories (a changed
\* model).
formatCategory_unmatched(categoryText, availableCategories) ==
  formattedCategory(categoryText)

formatCategory(categoryText, availableCategories) ==
  LET matchedCategory == find(availableCategories, formattedCategory(categoryText))
  IN IF matchedCategory # <<>> /\ matchedCategory[1] # <<>>
       THEN matchedCategory[1]
       ELSE formattedCategory(categoryText)

\* The answers formatCategory is applied to: up to MaxPieces pieces in a row.
MaxPieces == 3

AnswerPieces == {
  <<"t", "e", "c", "h">>,
  <<"N", "e", "W", "S", " ">>,
  <<"s", "o", "c", "i", "a", "l", " ", "m", "e", "d", "i", "a">>,
  <<" ">>,
  <<"\"">>,
  <<"'">>,
  <<"\n">>,
  <<"x">>}

RECURSIVE concat(_)
concat(pieces) ==
  IF pieces = <<>> THEN <<>> ELSE Head(pieces) \o concat(Tail(pieces))

Answers == {concat(ps) : ps \in SeqsUpTo(AnswerPieces, MaxPieces)}

\* The category lists of the settings (tabSorterCategories).
CategorySets == {
  <<>>,
  <<<<"T", "e", "c", "h">>, <<"N", "e", "w", "s">>>>,
  <<<<"n", "e", "w", "s">>, <<"S", "o", "c", "i", "a", "l", " ", "m", "e", "d", "i", "a">>, <<"T", "e", "c", "h">>>>}

\* formatCategory is applied to an answer and a category list.
InitFormat ==
  InitBackground({[fn |-> "formatCategory", categoryText |-> categoryText,
                   availableCategories |-> availableCategories, returned |-> FALSE] :
                    categoryText \in Answers, availableCategories \in CategorySets})

FormatCategory ==
  /\ call.fn = "formatCategory"
  /\ Return(formatCategory(call.categoryText, call.availableCategories))
  /\ UNCHANGED <<windowVars, uiVars>>

NextFormat == FormatCategory

SpecFormat == InitFormat /\ [][NextFormat]_vars

\* The words of a text: its maximal runs of characters that are not white
\* space, as pairs of first and last position.
WordSpans(text) ==
  {<<i, j>> \in (DOMAIN text) \X (DOMAIN text) :
     /\ i <= j
     /\ \A k \in i..j : text[k] \notin WhiteSpace
     /\ i = 1 \/ text[i - 1] \in WhiteSpace
     /\ j = Len(text) \/ text[j + 1] \in WhiteSpace}

\* A word in title case: first letter upper case, the others lower case.
TitleCase(word) ==
  [i \in DOMAIN word |->
     IF i = 1 THEN toUpperCase(<<word[i]>>)[1] ELSE toLowerCase(<<word[i]>>)[1]]

\* The normalized text of an answer: its quote characters removed, its first
\* two words in title case, one space between them.
Normalized(raw) ==
  LET text == SelectSeq(raw, LAMBDA c : c \notin Quotes)
      spans == WordSpans(text)
      first == {s \in spans : Cardinality({r \in spans : r[1] < s[1]}) = 0}
      second == {s \in spans : Cardinality({r \in spans : r[1] < s[1]}) = 1}
      Word(S) == LET s == CHOOSE s \in S : TRUE IN TitleCase(SubSeq(text, s[1], s[2]))
  IN IF first = {} THEN <<>>
     ELSE IF second = {} THEN Word(first)
     ELSE Word(first) \o <<" ">> \o Word(second)

\* C14: category match normalisation.  formatCategory(raw, set) is the member
\* of the set equal to the normalized text of raw up to case, when there is
\* one, and the normalized text otherwise.
C14_FormatCategory ==
  call.fn = "formatCategory" /\ call.returned =>
    LET normalized == Normalized(call.categoryText)
        members == {call.availableCategories[i] : i \in DOMAIN call.availableCategories}
        equal == {m \in members : toLowerCase(m) = toLowerCase(normalized)}
    IN IF equal = {} THEN result = normalized ELSE result \in equal

\* An answer of more than two words with a quote, whose first two words are a
\* category written in another case, gave that category.
C14_Witness ==
  /\ call.fn = "formatCategory" /\ call.returned
  /\ Cardinality(WordSpans(call.categoryText)) > 2
  /\ \E i \in DOMAIN call.categoryText : call.categoryText[i] \in Quotes
  /\ result # Normalized(call.categoryText)
  /\ \E i \in DOMAIN call.availableCategories : call.availableCategories[i] = result

\* ---------------------------------------------------------------------------
\* background.js: the analysis of one tab's content by a backend.

\* How the backend behaves when it is asked: it answers with a text, it fails
\* (rejected promise, thrown error), it never answers, or it is not available
\* (no language model API or capabilities "no"; HTTP status not ok).
BackendAnswers == {
  <<"t", "e", "c", "h">>,
  <<"C", "o", "o", "k", "i", "n", "g">>,
  <<"'", " ", "N", "e", "W", "S", " ", "'">>,
  <<"s", "o", "c", "i", "a", "l", " ", "m", "e", "d", "i", "a", " ", "s", "i", "t", "e", "s">>,
  <<>>}

Backends ==
  {[kind |-> "answers", text |-> r] : r \in BackendAnswers}
    \cup {[kind |-> k, text |-> <<>>] : k \in {"errors", "silent", "unavailable"}}

\* content.substring(0, 750)
TrimLength == 750

\* trimmedContent.length < 10
MinContentLength == 10

UnableToAccess ==
  <<"U", "n", "a", "b", "l", "e", " ", "t", "o", " ", "a", "c", "c", "e",
    "s", "s", " ", "t", "a", "b", " ", "c", "o", "n", "t", "e", "n", "t">>

\* analyzeWithGemini of the background script.  The language model is asked
\* only for a content of 10 characters or more that is not the extractor's
\* failure text; every failure of the model, its 3 s and 5 s timers included,
\* is caught and answered by the classifier.
analyzeWithGemini(content, availableCategories, backend) ==
  LET trimmedContent == slice(content, 0, TrimLength) IN
    IF Len(trimmedContent) < MinContentLength \/ includes(trimmedContent, UnableToAccess)
      THEN simulateAICategory(trimmedContent)
    ELSE IF backend.kind # "answers" THEN simulateAICategory(trimmedContent)
    ELSE formatCategory(backend.text, availableCategories)

\* analyzeWithOllama of the background script.  formatCategory is called with
\* the answer alone: its availableCategories is undefined, so its find throws
\* a TypeError, which the catch around the fetch answers by the classifier;
\* so do a failed fetch and a status that is not ok.
analyzeWithOllama(content, backend) ==
  LET trimmedContent == slice(content, 0, TrimLength) IN
    [category |-> simulateAICategory(trimmedContent), error |-> ""]

\* `Title: ${request.tabId}`, the text classified when no content was read:
\* it holds no keyword.
TitleOfTabId == <<"T", "i", "t", "l", "e", ":", " ", "1">>

\* The onMessage listener: what sendResponse is called with.  extracted is
\* FALSE when the content script gave no text, so that content.substring
\* throws.
sendResponse(type, content, extracted, availableCategories, backend) ==
  IF type = "gemini"
    THEN IF extracted
           THEN [category |-> analyzeWithGemini(content, availableCategories, backend),
                 error |-> ""]
           ELSE [category |-> simulateAICategory(TitleOfTabId),
                 error |-> "Failed to get tab content"]
  ELSE IF extracted
    THEN analyzeWithOllama(content, backend)
  ELSE [category |-> simulateAICategory(TitleOfTabId),
        error |-> "Failed to analyze with Ollama"]

\* Whether the listener calls sendResponse at all: a fetch that never settles
\* has no timer in the background script.
Responds(type, extracted, backend) ==
  ~(type = "ollama" /\ extracted /\ backend.kind = "silent")

\* ---------------------------------------------------------------------------
\* TabOrganizer: the analysis of one tab.

\* The callback of chrome.runtime.sendMessage: channel is "lastError" when
\* the message could not be delivered and "noResponse" when the callback gets
\* no response.
messageCallback(channel, response) ==
  IF channel = "lastError" THEN [category |-> Misc, error |-> "lastError"]
  ELSE IF channel = "ok" /\ response.error # ""
    THEN [category |-> Misc, error |-> response.error]
  ELSE IF channel = "noResponse" THEN [category |-> Misc, error |-> "No response"]
  ELSE response

\* Promise.race([analysisPromise, timeoutPromise]): both promises only ever
\* resolve, and the timer resolves with "Misc".
analysisRace(winner, channel, response, content) ==
  IF winner = "timeout"
    THEN [category |-> Misc, error |-> "Analysis timeout"]
    ELSE messageCallback(channel, response)

\* analyzeWithGemini and analyzeWithOllama of the organizer differ in the
\* message they send only.
TabOrganizer_analyzeWithGemini(winner, channel, response, content) ==
  analysisRace(winner, channel, response, content)

TabOrganizer_analyzeWithOllama(winner, channel, response, content) ==
  analysisRace(winner, channel, response, content)

\* The fallback category of a tab that is likely to cause errors: the first
\* label of its host name without "www.", first letter in upper case;
\* "Unknown" when the URL is not an http one and "Error" for an empty label.
Www == <<"w", "w", "w", ".">>

\* String.prototype.replace(pattern, ''): the first occurrence is removed.
removeFirst(text, pattern) ==
  LET at == {i \in 1..(Len(text) - Len(pattern) + 1) :
               SubSeq(text, i, i + Len(pattern) - 1) = pattern}
  IN IF at = {} THEN text
     ELSE LET i == CHOOSE i \in at : \A j \in at : i <= j
          IN SubSeq(text, 1, i - 1) \o SubSeq(text, i + Len(pattern), Len(text))

\* split('.')[0]
firstLabel(hostname) ==
  LET dots == {i \in DOMAIN hostname : hostname[i] = "."} IN
    IF dots = {} THEN hostname
    ELSE SubSeq(hostname, 1, (CHOOSE i \in dots : \A j \in dots : i <= j) - 1)

Unknown == <<"U", "n", "k", "n", "o", "w", "n">>

ErrorLabel == <<"E", "r", "r", "o", "r">>

domainCategory(tab) ==
  LET label == firstLabel(removeFirst(tab.hostname, Www))
      domain == IF tab.http
                  THEN toUpperCase(slice(label, 0, 1)) \o slice(label, 1, Len(label))
                  ELSE Unknown
  IN IF domain = <<>> THEN ErrorLabel ELSE domain

\* The body of analyzeTabs for one tab: the category stored for it.  s is
\* what happens during the analysis of the tab.
analyzeTab(type, tab, s) ==
  IF tab.broken THEN domainCategory(tab)
  ELSE IF type \notin {"gemini", "ollama"} THEN Misc
  ELSE LET response == sendResponse(type, s.content, s.extracted, s.categories, s.backend)
           analysis == IF type = "gemini"
                         THEN TabOrganizer_analyzeWithGemini(s.winner, s.channel, response, s.content)
                         ELSE TabOrganizer_analyzeWithOllama(s.winner, s.channel, response, s.content)
       IN IF analysis.category # <<>> THEN analysis.category ELSE Misc

\* The tabs analysed: a loaded page, and pages that are likely to cause errors
\* (an http page still loading or titled as an error, an error page).
AnalysedTabs == {
  [broken |-> FALSE, http |-> TRUE, hostname |-> <<"w", "w", "w", ".", "n", "e", "w", "s", ".", "o", "r", "g">>],
  [broken |-> TRUE, http |-> TRUE, hostname |-> <<"w", "w", "w", ".", "n", "e", "w", "s", ".", "o", "r", "g">>],
  [broken |-> TRUE, http |-> TRUE, hostname |-> <<"s", "h", "o", "p", ".", "i", "o">>],
  [broken |-> TRUE, http |-> FALSE, hostname |-> <<>>]}

\* The contents read from a tab: "Title:" and at most one word, and the text
\* of a failed extraction.
Contents ==
  {join(<<<<"T", "i", "t", "l", "e", ":">>>> \o ws, " ") : ws \in SeqsUpTo(ClassifierWords, 1)}
    \cup {UnableToAccess}

\* What can happen during the analysis of one tab.  The timer of the organizer
\* wins the race when no response comes, and may win it otherwise.
Scenarios(type) ==
  {s \in [content : Contents, extracted : BOOLEAN, categories : CategorySets,
          backend : Backends, channel : {"ok", "lastError", "noResponse"},
          winner : {"callback", "timeout"}] :
     /\ ~Responds(type, s.extracted, s.backend) => s.winner = "timeout"
     /\ s.extracted \/ s.content = UnableToAccess}

ModelTypes == {"gemini", "ollama", "other"}

\* One tab is analysed.
InitAnalyze ==
  InitBackground(UNION {{[fn |-> "analyzeTab", type |-> type, tab |-> tab,
                           scenario |-> s, returned |-> FALSE] :
                            tab \in AnalysedTabs, s \in Scenarios(type)} :
                          type \in ModelTypes})

AnalyzeTab ==
  /\ call.fn = "analyzeTab"
  /\ Return(analyzeTab(call.type, call.tab, call.scenario))
  /\ UNCHANGED <<windowVars, uiVars>>

NextAnalyze == AnalyzeTab

SpecAnalyze == InitAnalyze /\ [][NextAnalyze]_vars

\* The backend of a tab's analysis is asked: the tab is analysed by one of the
\* two backends, its content was read, and (for the language model) is long
\* enough to be sent.
BackendAsked ==
  /\ call.fn = "analyzeTab"
  /\ ~call.tab.broken
  /\ call.type \in {"gemini", "ollama"}
  /\ call.scenario.extracted
  /\ call.type = "gemini" =>
       /\ Len(call.scenario.content) >= MinContentLength
       /\ ~includes(call.scenario.content, UnableToAccess)

\* C12: fallback on timeout.  When the backend asked for a tab never answers,
\* the tab's analysis ends with the classifier's label of the tab's content.
C12_TimeoutFallback ==
  (BackendAsked /\ call.returned /\ call.scenario.backend.kind = "silent") =>
    result = simulateAICategory(slice(call.scenario.content, 0, TrimLength))

\* C20: successful backend responses are used.  When the backend asked for a
\* tab answers with a text and the answer reaches the organizer in time, the
\* tab's category is formatCategory of that text and of the category list.
C20_AnswerUsed ==
  (/\ BackendAsked /\ call.returned
   /\ call.scenario.backend.kind = "answers"
   /\ call.scenario.channel = "ok" /\ call.scenario.winner = "callback"
   /\ formatCategory(call.scenario.backend.text, call.scenario.categories) # <<>>)
    => result = formatCategory(call.scenario.backend.text, call.scenario.categories)

\* ---------------------------------------------------------------------------
\* TabOrganizer.analyzeTabs: the analysis of the tabs, batch after batch.

\* const batchSize = 5
batchSize == 5

\* tabCategories[id] = category
assign(tabCategories, id, category) ==
  {e \in tabCategories : e.id # id} \cup {[id |-> id, category |-> category]}

\* The callback of batch.map without its try and catch: an unknown model type
\* throws, the promise of the tab is rejected and nothing is stored for the
\* tab (a changed model).
batchCallback_uncaught(type, item) ==
  IF ~item.tab.broken /\ type \notin {"gemini", "ollama"}
    THEN [rejected |-> TRUE, stored |-> <<>>]
    ELSE [rejected |-> FALSE, stored |-> <<analyzeTab(type, item.tab, item.scenario)>>]

\* The callback of batch.map: its whole body is inside a try whose catch
\* stores "Misc", so its promise is fulfilled with a category stored.
batchCallback(type, item) ==
  [rejected |-> FALSE, stored |-> <<analyzeTab(type, item.tab, item.scenario)>>]

\* The callbacks of the batch that starts after the first done items: all of
\* them run, and Promise.all is rejected when one of them is.
RECURSIVE storeBatch(_, _, _, _, _)
storeBatch(type, items, i, last, tabCategories) ==
  IF i > last THEN tabCategories
  ELSE LET r == batchCallback(type, items[i]) IN
    storeBatch(type, items, i + 1, last,
               IF r.stored = <<>> THEN tabCategories
               ELSE assign(tabCategories, i, r.stored[1]))

RECURSIVE analyzeBatches(_, _, _, _)
analyzeBatches(type, items, done, tabCategories) ==
  IF done >= Len(items) THEN [completed |-> TRUE, tabCategories |-> tabCategories]
  ELSE LET last == Min(done + batchSize, Len(items))
           stored == storeBatch(type, items, done + 1, last, tabCategories)
       IN IF \E i \in (done + 1)..last : batchCallback(type, items[i]).rejected
            THEN [completed |-> FALSE, tabCategories |-> stored]
            ELSE analyzeBatches(type, items, last, stored)

\* items[i] is the tab of id i and what happens during its analysis.
analyzeTabs(type, items) == analyzeBatches(type, items, 0, {})

\* The tabs analysed together, at most MaxAnalysed of them: a loaded tab whose
\* backend answers, one whose backend fails, one whose backend stays silent
\* until the organizer's timer fires, and a tab that is likely to cause errors.
MaxAnalysed == 6

LoadedTab == [broken |-> FALSE, http |-> TRUE, hostname |-> <<"w", "w", "w", ".", "n", "e", "w", "s", ".", "o", "r", "g">>]

BrokenTab == [broken |-> TRUE, http |-> TRUE, hostname |-> <<"s", "h", "o", "p", ".", "i", "o">>]

AnalysedItems == {
  [tab |-> LoadedTab,
   scenario |-> [content |-> <<"T", "i", "t", "l", "e", ":", " ", "N", "e", "w", "s">>, extracted |-> TRUE,
                 categories |-> <<>>, backend |-> [kind |-> "answers", text |-> <<"t", "e", "c", "h">>],
                 channel |-> "ok", winner |-> "callback"]],
  [tab |-> LoadedTab,
   scenario |-> [content |-> <<"T", "i", "t", "l", "e", ":", " ", "s", "h", "o", "p">>, extracted |-> TRUE,
                 categories |-> <<>>, backend |-> [kind |-> "errors", text |-> <<>>],
                 channel |-> "ok", winner |-> "callback"]],
  [tab |-> LoadedTab,
   scenario |-> [content |-> <<"T", "i", "t", "l", "e", ":", " ", "z", "z", "z">>, extracted |-> TRUE,
                 categories |-> <<>>, backend |-> [kind |-> "silent", text |-> <<>>],
                 channel |-> "ok", winner |-> "timeout"]],
  [tab |-> BrokenTab,
   scenario |-> [content |-> <<"T", "i", "t", "l", "e", ":", " ", "s", "h", "o", "p">>, extracted |-> TRUE,
                 categories |-> <<>>, backend |-> [kind |-> "errors", text |-> <<>>],
                 channel |-> "ok", winner |-> "callback"]]}

InitAnalyzeTabs ==
  InitBackground({[fn |-> "analyzeTabs", type |-> type, items |-> items, returned |-> FALSE] :
                    type \in ModelTypes, items \in SeqsUpTo(AnalysedItems, MaxAnalysed)})

AnalyzeTabs ==
  /\ call.fn = "analyzeTabs"
  /\ Return(analyzeTabs(call.type, call.items))
  /\ UNCHANGED <<windowVars, uiVars>>

NextAnalyzeTabs == AnalyzeTabs

SpecAnalyzeTabs == InitAnalyzeTabs /\ [][NextAnalyzeTabs]_vars

\* The categories stored for the tab of id i.
CategoriesOf(tabCategories, i) == {e.category : e \in {d \in tabCategories : d.id = i}}

\* C13: organize with an always-failing backend.  When the backend of every
\* tab fails, the analysis completes and every tab is given the category
\* "Misc", except the tabs likely to cause errors, which are given the
\* category of their host.
C13_FailingBackend ==
  (/\ call.fn = "analyzeTabs" /\ call.returned
   /\ call.type \in {"gemini", "ollama"}
   /\ \A i \in DOMAIN call.items : call.items[i].scenario.backend.kind = "errors")
    => /\ result.completed
       /\ \A i \in DOMAIN call.items :
            CategoriesOf(result.tabCategories, i) =
              {IF call.items[i].tab.broken THEN domainCategory(call.items[i].tab) ELSE Misc}

\* C18: per-tab degradation.  Whatever happens during the analyses of the
\* tabs, the analysis of all batches completes and every tab has exactly one
\* category.
C18_EveryTabLabelled ==
  (call.fn = "analyzeTabs" /\ call.returned) =>
    /\ result.completed
    /\ \A i \in DOMAIN call.items :
         Cardinality({e \in result.tabCategories : e.id = i}) = 1
    /\ \A e \in result.tabCategories : e.id \in DOMAIN call.items

\* Two batches with a failed backend, a timeout and a thrown exception (the
\* model type is unknown) were analysed.
C18_Witness ==
  /\ call.fn = "analyzeTabs" /\ call.returned
  /\ Len(call.items) > batchSize
  /\ call.type = "other"
  /\ \E i \in DOMAIN call.items : ~call.items[i].tab.broken
  /\ \E i \in DOMAIN call.items : call.items[i].scenario.winner = "timeout"
  /\ \E i \in DOMAIN call.items : call.items[i].scenario.backend.kind = "errors"
  /\ result.completed
  /\ Cardinality(result.tabCategories) = Len(call.items)

\* ---------------------------------------------------------------------------
\* Properties of organizeByContent and of the sorts in a popup session.

\* organizeByContent alone, on the windows of MaxTabs - 1 tabs in any order with
\* any number of pinned tabs, no request being rejected.
InitOrganize ==
  /\ \E o \in Orders(SessionTabs), p \in 0..SessionTabs, internal \in {{}, {2}} :
       \E ga \in GroupAssignments(SessionTabs, p) :
         /\ tabs = InitTabs(o, p, ga, internal)
         /\ groups = [g \in {ga[i] : i \in 1..SessionTabs} \ {TAB_GROUP_ID_NONE} |->
                        InitGroupStyle(g)]
  /\ InitPopup
  /\ events = MaxEvents

NextOrganize == OrganizeByContent

SpecOrganize == InitOrganize /\ [][NextOrganize]_vars

\* C16: organize eligibility.  Every tab id of a group request issued by
\* organizeByContent belongs to a tab that is neither pinned nor showing an
\* internal page.
C16_OrganizeEligibility ==
  lastOp = "organizeByContent" =>
    \A i \in DOMAIN requests :
      requests[i].kind = "group" =>
        \A id \in requests[i].ids :
          \E j \in DOMAIN tabs :
            /\ tabs[j].id = id
            /\ ~tabs[j].pinned
            /\ ~IsInternalUrl(tabs[j].url)

\* C17: organize with zero eligible tabs.  organizeByContent started when every
\* tab is pinned or shows an internal page ends with nothing done: no exception
\* and no request.
C17_OrganizeNothingToDo ==
  [][(/\ lastOp' = "organizeByContent"
      /\ \A i \in DOMAIN tabs : tabs[i].pinned \/ IsInternalUrl(tabs[i].url))
       => (lastResult' = "noop" /\ requests' = <<>>)]_vars

\* C19: sort move failures are not fatal.  A sort one of whose moves is
\* rejected still issues as many moves as the same sort without a rejection,
\* and does not fail.
C19_MoveFailureTolerated ==
  [][(/\ lastOp' \in Sorts
      /\ \E i \in DOMAIN requests' : ~requests'[i].ok)
       => /\ lastResult' = "ok"
          /\ Len(requests') =
               Len(sortBy(tabs, groups, previousState, PropertyOf(lastOp'), TRUE, {}).log)]_vars

\* ---------------------------------------------------------------------------
\* restorePreviousState alone.  A snapshot of a window of MaxTabs - 1 tabs is
\* held; since it was taken some of its tabs were closed, a tab may have been
\* opened, and the unpinned tabs may have been put in reverse order.

Reverse(s) == [i \in 1..Len(s) |-> s[Len(s) + 1 - i]]

\* The tab opened since the snapshot.
NewTab ==
  [id |-> MaxTabs, url |-> UrlOf(MaxTabs), title |-> TitleOf(MaxTabs), pinned |-> FALSE,
   groupId |-> TAB_GROUP_ID_NONE]

\* The window now, given the window of the snapshot.
WindowNow(ts, closed, opened, reversed) ==
  LET Open(t) == t.id \notin closed
      IsPinned(t) == t.pinned
      NotPinned(t) == ~t.pinned
      left == SelectSeq(ts, Open)
      unpinned == SelectSeq(left, NotPinned)
  IN SelectSeq(left, IsPinned)
       \o (IF reversed THEN Reverse(unpinned) ELSE unpinned)
       \o (IF opened THEN <<NewTab>> ELSE <<>>)

InitRestore ==
  /\ \E p \in 0..(SessionTabs \div 2), closed \in SUBSET (1..SessionTabs),
        opened \in BOOLEAN, reversed \in BOOLEAN :
       \E ga \in GroupAssignments(SessionTabs, p) :
         LET ts == InitTabs([i \in 1..SessionTabs |-> i], p, ga, {2})
             gs == [g \in {ga[i] : i \in 1..SessionTabs} \ {TAB_GROUP_ID_NONE} |->
                      InitGroupStyle(g)]
             now == WindowNow(ts, closed, opened, reversed)
         IN /\ now # <<>>
            /\ tabs = now
            /\ groups = LiveGroups(now, gs)
            /\ previousState = <<TabState(ts, gs)>>
            /\ captured = <<[tabs |-> ts, groups |-> gs]>>
  /\ InitButtons
  /\ call = [fn |-> "none", failing |-> {}, fatal |-> "none", returned |-> TRUE]
  /\ result = <<>>
  /\ lastOp = "init"
  /\ lastResult = "ok"
  /\ requests = <<>>
  /\ saved = TRUE
  /\ captures = 1
  /\ events = 0

\* One call of restorePreviousState; the browser rejects the move of at most
\* one tab, or the tab query, or the ungrouping.
Restore ==
  \E failing \in {{}} \cup {{id} : id \in 1..SessionTabs},
     fatal \in {"none", "query", "ungroup"} :
    LET r == restorePreviousState(tabs, groups, previousState, failing, fatal) IN
      /\ tabs' = r.tabs
      /\ groups' = r.groups
      /\ previousState' = r.previousState
      /\ requests' = r.log
      /\ lastOp' = "undo"
      /\ lastResult' = IF ~canUndo(previousState) THEN "noop"
                       ELSE IF r.result THEN "ok" ELSE "error"
      /\ call' = [fn |-> "restorePreviousState", failing |-> failing, fatal |-> fatal,
                  returned |-> TRUE]
      /\ UNCHANGED <<result, events, saved, captured, captures, uiVars>>

NextRestore == Restore

SpecRestore == InitRestore /\ [][NextRestore]_vars

\* The step is a call of restorePreviousState with a snapshot held.
Restoring == call'.fn = "restorePreviousState" /\ canUndo(previousState)

\* The requests of a kind in a log, in order.
RequestsOf(log, kind) == SelectSeq(log, LAMBDA r : r.kind = kind)

\* C25: restore tolerates closed tabs.  The move and group requests of a
\* restore name open tabs only; when no tab of the snapshot is open the
\* restore fails, issues no request and keeps the snapshot.
C25_RestoreClosedTabs ==
  [][Restoring =>
       /\ \A i \in DOMAIN requests' :
            requests'[i].kind \in {"move", "group"} => requests'[i].ids \subseteq IdsOf(tabs)
       /\ (\A i \in DOMAIN previousState[1].tabs : previousState[1].tabs[i].id \notin IdsOf(tabs))
            => /\ lastResult' = "error"
               /\ requests' = <<>>
               /\ previousState' = previousState]_vars

\* A restore after a tab of the snapshot was closed moved and grouped the
\* tabs that are left.
C25_Witness ==
  /\ call.fn = "restorePreviousState" /\ lastResult = "ok"
  /\ \E i \in DOMAIN captured[1].tabs : captured[1].tabs[i].id \notin IdsOf(tabs)
  /\ RequestsOf(requests, "move") # <<>>
  /\ RequestsOf(requests, "group") # <<>>

\* C26: restore move failures are skipped.  When the move of a valid tab is
\* rejected, every valid tab still gets its move request, in snapshot order,
\* every group of the valid tabs is recreated, the snapshot is cleared and the
\* restore succeeds.
C26_RestoreMoveSkipped ==
  [][(/\ Restoring
      /\ call'.fatal = "none"
      /\ call'.failing \cap IdsOf(ValidTabs(tabs, previousState[1])) # {})
       => LET validTabs == ValidTabs(tabs, previousState[1])
              moves == RequestsOf(requests', "move")
              created == RequestsOf(requests', "group")
              groupMap == GroupMap(SelectSeq(validTabs, IsGrouped))
          IN /\ lastResult' = "ok"
             /\ previousState' = Null
             /\ [i \in DOMAIN moves |-> moves[i].ids] = [i \in DOMAIN validTabs |-> {validTabs[i].id}]
             /\ [i \in DOMAIN created |-> created[i].ids]
                  = [i \in DOMAIN groupMap |-> groupMap[i].tabIds]]_vars

\* A restore went on after a rejected move: a later move was accepted and a
\* group was recreated.
C26_Witness ==
  /\ call.fn = "restorePreviousState" /\ lastResult = "ok"
  /\ \E i, j \in DOMAIN requests :
       /\ i < j
       /\ requests[i].kind = "move" /\ ~requests[i].ok
       /\ requests[j].kind = "move" /\ requests[j].ok
  /\ RequestsOf(requests, "group") # <<>>
  /\ previousState = Null

\* C27: restore never raises.  A rejected tab query and a failed ungrouping
\* are caught: the restore returns false, keeps the snapshot and leaves the
\* window as it is.
C27_RestoreCatches ==
  [][(Restoring /\ call'.fatal # "none")
       => /\ lastResult' = "error"
          /\ previousState' = previousState
          /\ tabs' = tabs
          /\ groups' = groups]_vars

\* The ungrouping of a restore was rejected and the snapshot is still held.
C27_Witness ==
  /\ call.fn = "restorePreviousState" /\ call.fatal = "ungroup"
  /\ lastResult = "error"
  /\ requests # <<>>
  /\ canUndo(previousState)

\* ---------------------------------------------------------------------------
\* groupTabsByCategory alone: the unpinned tabs of a window of MaxTabs - 1 tabs
\* carry any labels, and the browser rejects at most one request.

GroupingLabels == Labels \cup {"News"}

Rejections ==
  {NoRejection}
    \cup {[group |-> {c}, update |-> {}] : c \in GroupingLabels}
    \cup {[group |-> {}, update |-> {c}] : c \in GroupingLabels}

InitGroup ==
  /\ InitWindow(SessionTabs, {[i \in 1..SessionTabs |-> i]}, {{2}})
  /\ InitButtons
  /\ previousState = Null
  /\ lastOp = "init"
  /\ lastResult = "ok"
  /\ requests = <<>>
  /\ saved = FALSE
  /\ captured = <<>>
  /\ captures = 0
  /\ events = 0
  /\ result = <<>>
  /\ \E rejected \in Rejections :
       \E tabCategories \in [{tabs[i].id : i \in {j \in DOMAIN tabs : ~tabs[j].pinned}}
                               -> GroupingLabels] :
         call = [fn |-> "groupTabsByCategory", tabCategories |-> tabCategories,
                 rejected |-> rejected, returned |-> FALSE]

GroupTabsByCategory ==
  /\ ~call.returned
  /\ LET g == groupTabsByCategory(tabs, groups, Categories(call.tabCategories),
                                  call.tabCategories, {}, call.rejected, <<>>)
     IN /\ tabs' = g.tabs
        /\ groups' = g.groups
        /\ requests' = g.log
  /\ call' = [call EXCEPT !.returned = TRUE]
  /\ lastOp' = "groupTabsByCategory"
  /\ UNCHANGED <<previousState, lastResult, events, saved, captured, captures, result, uiVars>>

NextGroup == GroupTabsByCategory

SpecGroup == InitGroup /\ [][NextGroup]_vars

\* The tabs given a label.
LabelledWith(tabCategories, c) == {id \in DOMAIN tabCategories : tabCategories[id] = c}

\* The labels given to some tab.
LabelsOf(tabCategories) == {tabCategories[id] : id \in DOMAIN tabCategories}

\* C23: grouping partitions the labelled tabs.  After groupTabsByCategory there
\* is one group request per label, holding exactly the tabs of that label;
\* every labelled tab is in exactly one request; and every label whose own
\* requests were not rejected has its tabs in a group of their own, titled and
\* colored after the label, whatever happened to the other labels.
C23_GroupingPartitions ==
  (call.fn = "groupTabsByCategory" /\ call.returned) =>
    LET tabCategories == call.tabCategories
        grouping == RequestsOf(requests, "group")
    IN /\ Len(grouping) = Cardinality(LabelsOf(tabCategories))
       /\ \A c \in LabelsOf(tabCategories) :
            Cardinality({i \in DOMAIN grouping : grouping[i].ids = LabelledWith(tabCategories, c)}) = 1
       /\ \A id \in DOMAIN tabCategories :
            Cardinality({i \in DOMAIN grouping : id \in grouping[i].ids}) = 1
       /\ \A c \in LabelsOf(tabCategories) \ (call.rejected.group \cup call.rejected.update) :
            \E g \in DOMAIN groups :
              /\ {tabs[i].id : i \in {j \in DOMAIN tabs : tabs[j].groupId = g}}
                   = LabelledWith(tabCategories, c)
              /\ groups[g] = [title |-> c, color |-> getCategoryColor(Characters(c))]
              /\ \E i \in DOMAIN grouping : grouping[i].arg = g /\ grouping[i].ok

\* A group request was rejected and the request of a later label was accepted.
C23_Witness ==
  /\ call.fn = "groupTabsByCategory" /\ call.returned
  /\ \E i, j \in DOMAIN requests :
       /\ i < j
       /\ requests[i].kind = "group" /\ ~requests[i].ok
       /\ requests[j].kind = "group" /\ requests[j].ok
       /\ Cardinality(requests[i].ids) + Cardinality(requests[j].ids) < Cardinality(DOMAIN call.tabCategories)

\* ---------------------------------------------------------------------------
\* getCategoryColor alone, on the labels made of at most MaxPieces pieces.

LabelPieces == {
  <<"M", "i", "s", "c">>,
  <<"T", "e", "c", "h">>,
  <<"N", "e", "w", "s">>,
  <<"a">>,
  <<"Z">>,
  <<" ">>,
  <<"&">>}

ColoredLabels == {concat(ps) : ps \in SeqsUpTo(LabelPieces, MaxPieces)}

InitColor ==
  InitBackground({[fn |-> "getCategoryColor", category |-> category, returned |-> FALSE] :
                    category \in ColoredLabels})

GetCategoryColor ==
  /\ call.fn = "getCategoryColor"
  /\ Return(getCategoryColor(call.category))
  /\ UNCHANGED <<windowVars, uiVars>>

NextGetColor == GetCategoryColor

SpecColor == InitColor /\ [][NextGetColor]_vars

\* The sum of the character codes of the first n characters of a label.
RECURSIVE CodeSum(_, _)
CodeSum(label, n) == IF n = 0 THEN 0 ELSE CodeSum(label, n - 1) + charCodeAt(label[n])

\* C24: the label-to-color mapping.  The color returned for a label is the
\* palette entry at (sum of the character codes of the label) mod 9 of the
\* palette of 9 colors, counted from 0; it is a palette member, and the empty
\* label gets the first palette color.
C24_ColorOfLabel ==
  (call.fn = "getCategoryColor" /\ call.returned) =>
    /\ Len(colors) = 9
    /\ \E i \in 0..8 :
         /\ i = CodeSum(call.category, Len(call.category)) % 9
         /\ result = colors[i + 1]
    /\ call.category = <<>> => result = colors[1]

\* A label of nine characters got a color other than the first one and other
\* than the color of "Tech Misc", a label of the same length.
C24_Witness ==
  /\ call.fn = "getCategoryColor" /\ call.returned
  /\ Len(call.category) = 9
  /\ result # colors[1]
  /\ result # getCategoryColor(<<"T", "e", "c", "h", " ", "M", "i", "s", "c">>)

\* ---------------------------------------------------------------------------
\* The onMessage listener of the background script, step by step, for one
\* analyzeWithGemini or analyzeWithOllama message: the content is read, the
\* backend is asked or not, the backend settles, sendResponse is called.
\* requests holds the requests made to the backend, result the responses sent.
\* What the listener answers is fixed by the message and by what the content
\* script and the backend do: it is kept with the message as answer.

InitListener ==
  InitBackground(UNION {{[fn |-> "onMessage", type |-> type, scenario |-> s, pc |-> "received",
                           answer |-> sendResponse(type, s.content, s.extracted, s.categories,
                                                   s.backend),
                           returned |-> FALSE] :
                            s \in {x \in Scenarios(type) :
                                     x.channel = "ok" /\ x.winner = "timeout"}} :
                          type \in {"gemini", "ollama"}})

\* content.substring(0, 750) of the content read for the message.
Excerpt == slice(call.scenario.content, 0, TrimLength)

\* The check of analyzeWithGemini before the language model is used.
Insufficient(trimmedContent) ==
  Len(trimmedContent) < MinContentLength \/ includes(trimmedContent, UnableToAccess)

\* sendResponse is called with the listener's answer.
Respond ==
  /\ result' = Append(result, call.answer)
  /\ call' = [call EXCEPT !.pc = "responded", !.returned = TRUE]

\* getTabContent resolves.
GetTabContent ==
  /\ call.fn = "onMessage" /\ call.pc = "received"
  /\ call' = [call EXCEPT !.pc = "content"]
  /\ UNCHANGED <<result, windowVars, uiVars>>

\* The analysis up to its first await on the backend.  Without a text every
\* substring throws and the listener answers from its catch handlers.
\* analyzeWithGemini answers by the classifier when the content is
\* insufficient or the language model API is absent, and asks the language
\* model otherwise; analyzeWithOllama goes on to the fetch in every case.
Analyze ==
  /\ call.fn = "onMessage" /\ call.pc = "content"
  /\ IF ~call.scenario.extracted
       THEN Respond /\ UNCHANGED requests
     ELSE IF call.type = "gemini"
            /\ (Insufficient(Excerpt) \/ call.scenario.backend.kind = "unavailable")
       THEN Respond /\ UNCHANGED requests
     ELSE /\ requests' = Append(requests, Request(IF call.type = "gemini" THEN "languageModel"
                                                  ELSE "fetch", {}, 0, TRUE))
          /\ call' = [call EXCEPT !.pc = "asked"]
          /\ UNCHANGED result
  /\ UNCHANGED <<tabs, groups, previousState, lastOp, lastResult, events, saved, captured,
                 captures, uiVars>>

\* The backend settles, or a timer of analyzeWithGemini fires; the fetch of
\* analyzeWithOllama has no timer.
BackendSettles ==
  /\ call.fn = "onMessage" /\ call.pc = "asked"
  /\ Responds(call.type, call.scenario.extracted, call.scenario.backend)
  /\ Respond
  /\ UNCHANGED <<windowVars, uiVars>>

NextListener == GetTabContent \/ Analyze \/ BackendSettles

\* Every continuation that is ready is run by the event loop.
SpecListener == InitListener /\ [][NextListener]_vars /\ WF_vars(NextListener)

\* C28: short or failed excerpts skip the model.  For either backend, when the
\* excerpt is shorter than 10 characters or holds the extraction-failure text,
\* no request is made to the backend and the category sent is the
\* classifier's label of the excerpt.
C28_ShortExcerptSkipsModel ==
  (call.fn = "onMessage" /\ call.scenario.extracted /\ Insufficient(Excerpt)) =>
    /\ requests = <<>>
    /\ \A i \in DOMAIN result : result[i].category = simulateAICategory(Excerpt)

\* C30: every analysis request is answered once.  sendResponse is called at
\* most once for a message, every response carries a category, and eventually
\* sendResponse has been called.
C30_AnsweredOnce ==
  /\ [](call.fn = "onMessage" =>
          /\ Len(result) <= 1
          /\ \A i \in DOMAIN result : "category" \in DOMAIN result[i])
  /\ <>(call.fn = "onMessage" /\ Len(result) = 1)

\* ---------------------------------------------------------------------------
\* organizeByContent from analyzeTabs on, step by step: the per-tab analysis
\* calls of a batch start together, each ends when its response or its timer
\* wins the race, the next batch starts when Promise.all of the batch has
\* resolved, and grouping follows the last batch.  call.status is the position
\* of each tab's analysis call, call.backend that of its message to the
\* background script, result is tabCategories.

\* The tabs of batch k of n tabs: tabs.slice(i, i + batchSize).
Batch(n, k) == {i \in 1..n : (k - 1) * batchSize < i /\ i <= k * batchSize}

\* The number of batches of n tabs.
BatchCount(n) == (n + batchSize - 1) \div batchSize

Done == {"answered", "timedOut"}

\* A Promise.all that would resolve without waiting for its promises.
BatchSettled_notAwaited(status, batch) == TRUE

\* await Promise.all(batchPromises): every call of the batch has ended.
BatchSettled(status, batch) == \A i \in batch : status[i] \in Done

\* The category of a response of the background script, and that of the timer.
ResponseCategory == "Tech"

TimeoutCategory == "Misc"

\* A callback that would store the category of a response that lost the race.
lateCallback_assigns(tabCategories, id, response) == Put(tabCategories, id, response.category)

\* The sendMessage callback once the timer has won: it resolves
\* analysisPromise, which the race no longer listens to; tabCategories is not
\* touched.
lateCallback(tabCategories, id, response) == tabCategories

InitBatches ==
  /\ \E n \in 1..MaxAnalysed :
       /\ tabs = InitTabs([i \in 1..n |-> i], 0, [i \in 1..n |-> TAB_GROUP_ID_NONE], {})
       /\ call = [fn |-> "analyzeTabs", n |-> n, batch |-> 0, pc |-> "analyzing",
                  status |-> [i \in 1..n |-> "waiting"],
                  backend |-> [i \in 1..n |-> "idle"], returned |-> FALSE]
  /\ groups = <<>>
  /\ InitButtons
  /\ previousState = Null
  /\ lastOp = "init"
  /\ lastResult = "ok"
  /\ requests = <<>>
  /\ saved = FALSE
  /\ captured = <<>>
  /\ captures = 0
  /\ events = 0
  /\ result = <<>>

batchVars == <<previousState, lastOp, lastResult, events, saved, captured, captures, uiVars>>

\* The next batch: batch.map starts the call of each of its tabs, once the
\* batch before it has settled.
StartBatch ==
  /\ call.fn = "analyzeTabs" /\ call.pc = "analyzing"
  /\ call.batch < BatchCount(call.n)
  /\ BatchSettled(call.status, Batch(call.n, call.batch))
  /\ call' = [call EXCEPT
                !.batch = call.batch + 1,
                !.status = [i \in 1..call.n |->
                              IF i \in Batch(call.n, call.batch + 1) THEN "running"
                              ELSE call.status[i]],
                !.backend = [i \in 1..call.n |->
                               IF i \in Batch(call.n, call.batch + 1) THEN "pending"
                               ELSE call.backend[i]]]
  /\ UNCHANGED <<tabs, groups, requests, result, batchVars>>

\* The response of the background script wins the race of a tab.
CallbackWins ==
  \E i \in 1..call.n :
    /\ call.fn = "analyzeTabs"
    /\ call.status[i] = "running" /\ call.backend[i] = "pending"
    /\ call' = [call EXCEPT !.status[i] = "answered", !.backend[i] = "answered"]
    /\ result' = Put(result, i, ResponseCategory)
    /\ UNCHANGED <<tabs, groups, requests, batchVars>>

\* The timer wins the race of a tab; the message stays unanswered.
TimerWins ==
  \E i \in 1..call.n :
    /\ call.fn = "analyzeTabs"
    /\ call.status[i] = "running"
    /\ call' = [call EXCEPT !.status[i] = "timedOut"]
    /\ result' = Put(result, i, TimeoutCategory)
    /\ UNCHANGED <<tabs, groups, requests, batchVars>>

\* The response to a tab's message comes after its timer has won.
LateResponse ==
  \E i \in 1..call.n :
    /\ call.fn = "analyzeTabs"
    /\ call.status[i] = "timedOut" /\ call.backend[i] = "pending"
    /\ call' = [call EXCEPT !.backend[i] = "answered"]
    /\ result' = lateCallback(result, i, [category |-> ResponseCategory])
    /\ UNCHANGED <<tabs, groups, requests, batchVars>>

\* analyzeTabs returns after the last batch and groupTabsByCategory runs.
GroupAnalysedTabs ==
  /\ call.fn = "analyzeTabs" /\ call.pc = "analyzing"
  /\ call.batch = BatchCount(call.n)
  /\ BatchSettled(call.status, Batch(call.n, call.batch))
  /\ LET g == groupTabsByCategory(tabs, groups, Categories(result), result, {},
                                  NoRejection, <<>>)
     IN /\ tabs' = g.tabs
        /\ groups' = g.groups
        /\ requests' = g.log
  /\ call' = [call EXCEPT !.pc = "grouped", !.returned = TRUE]
  /\ UNCHANGED <<result, batchVars>>

NextBatches == StartBatch \/ CallbackWins \/ TimerWins \/ LateResponse \/ GroupAnalysedTabs

SpecBatches == InitBatches /\ [][NextBatches]_vars

\* C21: bounded fan-out.  At most 5 analysis calls are in flight; a call
\* starts only when every call of the batches before its own has ended and
\* the calls of the tabs before it have started; and requests are issued only
\* when the call of every tab has ended.
C21_BoundedFanOut ==
  [][call.fn = "analyzeTabs" =>
       /\ Cardinality({i \in 1..call.n : call'.status[i] = "running"}) <= 5
       /\ \A i \in 1..call.n :
            (call.status[i] = "waiting" /\ call'.status[i] = "running") =>
              /\ \A j \in 1..call.n :
                   (j - 1) \div 5 < (i - 1) \div 5 => call.status[j] \in Done
              /\ \A j \in 1..(i - 1) : call'.status[j] # "waiting"
       /\ requests' # requests => \A i \in 1..call.n : call.status[i] \in Done]_vars

\* The tabs of a second batch were analysed and the tabs were grouped.
C21_Witness ==
  /\ call.fn = "analyzeTabs" /\ call.pc = "grouped"
  /\ call.n > 5
  /\ RequestsOf(requests, "group") # <<>>

\* C22: late results are ignored.  Once the timer has won the race of a tab,
\* the tab keeps its label, and a response that comes later for the tab
\* changes neither the labels, nor the window, nor the requests.
C22_LateResultsIgnored ==
  [][call.fn = "analyzeTabs" =>
       \A i \in 1..call.n :
         call.status[i] = "timedOut" =>
           /\ i \in DOMAIN result' /\ result'[i] = result[i]
           /\ (call.backend[i] = "pending" /\ call'.backend[i] = "answered")
                => /\ result' = result
                   /\ tabs' = tabs /\ groups' = groups /\ requests' = requests]_vars

\* The tabs were grouped; one tab was labelled by its timer and its response
\* came later, another tab was labelled by its response.
C22_Witness ==
  /\ call.fn = "analyzeTabs" /\ call.pc = "grouped"
  /\ \E i \in 1..call.n :
       /\ call.status[i] = "timedOut" /\ call.backend[i] = "answered"
       /\ result[i] = TimeoutCategory
  /\ \E i \in 1..call.n : call.status[i] = "answered"

====
